---- MODULE Spec2Model ----
(***************************************************************************)
(* The in-memory versioned multi-stream event repository                   *)
(* (repository/in_memory/versioned_with_streams) and the Load-Decide-      *)
(* Append strategy (strategies/mod.rs) that runs a decider against it.     *)
(*                                                                         *)
(* A repository handle owns a HashMap from stream key to a shared cell     *)
(* (Arc<Mutex<InMemoryEventRepositoryState>>).  Cloning a handle copies    *)
(* the map: the cells that exist at that moment are shared, the entries    *)
(* inserted later are not.  Every handle is used by one task, which runs   *)
(* one repository operation or one execute call at a time (&mut self).     *)
(* A step of the model is one critical section of the code: what it does   *)
(* between taking a cell's mutex and releasing it, together with the local *)
(* computation around it.  A panic ends the operation of the task it       *)
(* happens in; a panic under a cell's mutex poisons that mutex, and every  *)
(* later lock().unwrap() of the cell panics as well.                       *)
(*                                                                         *)
(* usize arithmetic that leaves its range depends on the build: with       *)
(* overflow checks it panics, without them it wraps.  The build is chosen  *)
(* in the initial state (overflow_checks) and kept for the whole run.      *)
(***************************************************************************)
EXTENDS Integers, Sequences, FiniteSets

\* Number of repository handles (the one built by new() and its clones).
NumHandles == 2
\* Number of entity ids, and so of per-entity streams.
NumIds == 2
\* Total number of operations (execute, append, load) started in a run.
MaxCalls == 3
\* The explicit value of the `retrys` argument of execute besides 1.
MaxRetrys == 3
\* retrys.unwrap_or(20)
DefaultRetrys == 20
\* The width of usize in the model: wide enough for every length and
\* version the model reaches, so that only 0 - 1 and UsizeMax + 1 wrap.
UsizeBits == 16
UsizeMax == 2 ^ UsizeBits - 1

Handles == 1..NumHandles
Ids == 1..NumIds

(***************************************************************************)
(* RepositoryVersion<usize>                                                *)
(***************************************************************************)
Any == [t |-> "Any", v |-> 0]
NoStream == [t |-> "NoStream", v |-> 0]
StreamExists == [t |-> "StreamExists", v |-> 0]
Exact(n) == [t |-> "Exact", v |-> n]

\* get_base_stream_key / get_stream_key: "{stream_name}" and "{stream_name}/{id}"
BaseKey == <<"test">>
StreamKey(id) == <<"test", id>>
Keys == {BaseKey} \cup {StreamKey(i) : i \in Ids}

\* InMemoryEventRepositoryState::new()
NewStreamState == [events |-> <<>>, position |-> 0, poisoned |-> FALSE]

\* index_from_version: Exact(v) is v, every other variant is 0
index_from_version(ver) == IF ver.t = "Exact" THEN ver.v ELSE 0

\* version_from_index
version_from_index(i) == Exact(i)

\* VersionDiff::new(expected, actual)
VersionDiff(e, a) == [expected |-> e, actual |-> a]
NoDiff == VersionDiff(Any, Any)

(***************************************************************************)
(* Results of repository operations and of execute.                        *)
(***************************************************************************)
Result(t, evts, ver, diff) ==
    [events |-> evts, diff |-> diff, tag |-> t, version |-> ver]
NoResult == Result("none", <<>>, Any, NoDiff)
Ok(evts, ver) == Result("Ok", evts, ver, NoDiff)
VersionConflict(diff) == Result("VersionConflict", <<>>, Any, diff)
Panic == Result("Panic", <<>>, Any, NoDiff)
DecideErr == Result("DecideErr", <<>>, Any, NoDiff)
OccMaxRetries == Result("OccMaxRetries", <<>>, Any, NoDiff)

(***************************************************************************)
(* Events and the decider.  execute is generic in its decider; the one of  *)
(* the model follows the UserDecider of test_helpers/deciders.rs in what   *)
(* execute depends on (AddUser draws the entity id from the context,       *)
(* AddGuitar needs its entity in the state) and lets decide return a Vec   *)
(* of one or two events.  An event carries the entity id its stream id is  *)
(* derived from, the call that produced it and its place in the Vec decide *)
(* returned.                                                               *)
(***************************************************************************)
Evt(id, t, k, n) == [n |-> n, id |-> id, tag |-> t, k |-> k]
Batch(id, t, n) == [k \in 1..n |-> Evt(id, t, k, n)]

\* A stream id that ignores the event it is made from.
StreamIdFromNothing(e) == 1

\* StreamIdFromEvent::from: the stream id is the event's entity id
StreamIdFrom(e) == e.id

\* Evolver::init and Evolver::evolve of the recording evolver: the state is
\* the list of the events applied to it, so that nothing an evolver could
\* observe (an event missed, an event applied twice) is lost.
init == <<>>
evolve(s, e) == Append(s, e)

RECURSIVE Fold(_, _)
Fold(s, evts) ==
    IF evts = <<>> THEN s ELSE Fold(evolve(s, Head(evts)), Tail(evts))

\* Commands, after UserCommand: AddUser draws the entity id from the context
\* and emits a batch for it; AddGuitar names an entity that must be in the
\* state and emits one event for it.
AddUser(n) == [n |-> n, id |-> 0, op |-> "AddUser"]
AddGuitar(id) == [n |-> 1, id |-> id, op |-> "AddGuitar"]
\* A command the decider accepts with an empty Vec of events.
Noop == [n |-> 0, id |-> 0, op |-> "Noop"]
Cmds == {AddUser(n) : n \in 1..2} \cup {AddGuitar(i) : i \in Ids} \cup {Noop}

HasEntity(s, id) == \E i \in 1..Len(s) : s[i].id = id

\* A decide that accepts AddGuitar without looking for its entity.
decideUnchecked(c, s, cm, t) ==
    [evts |-> Batch(IF cm.op = "AddUser" THEN c ELSE cm.id, t, cm.n),
     ok |-> TRUE,
     ctx |-> IF cm.op = "AddUser" THEN c + 1 ELSE c]

\* DeciderWithContext::decide(ctx, state, cmd): the events or an error, and
\* the context's id sequence after the call.
\* A decider that answers every accepted command with at least one event.
decideNeverEmpty(c, s, cm, t) ==
    IF cm.op = "AddUser"
    THEN [evts |-> Batch(c, t, cm.n), ok |-> TRUE, ctx |-> c + 1]
    ELSE IF cm.op = "Noop"
    THEN [evts |-> Batch(c, t, 1), ok |-> TRUE, ctx |-> c]
    ELSE IF HasEntity(s, cm.id)
    THEN [evts |-> Batch(cm.id, t, 1), ok |-> TRUE, ctx |-> c]
    ELSE [evts |-> <<>>, ok |-> FALSE, ctx |-> c]

decide(c, s, cm, t) ==
    IF cm.op = "AddUser"
    THEN [evts |-> Batch(c, t, cm.n), ok |-> TRUE, ctx |-> c + 1]
    ELSE IF cm.op = "Noop"
    THEN [evts |-> <<>>, ok |-> TRUE, ctx |-> c]
    ELSE IF HasEntity(s, cm.id)
         THEN [evts |-> Batch(cm.id, t, cm.n), ok |-> TRUE, ctx |-> c]
         ELSE [evts |-> <<>>, ok |-> FALSE, ctx |-> c]

(***************************************************************************)
(* StreamState<StreamId>                                                   *)
(***************************************************************************)
New == [t |-> "New", id |-> 0]
Existing(id) == [t |-> "Existing", id |-> id]
StreamStates == {New} \cup {Existing(i) : i \in Ids}

\* Largest version an append or a read is called with.
MaxVersion == 2
Versions == {Any, NoStream, StreamExists} \cup {Exact(n) : n \in 0..MaxVersion}
RetrysChoices == {1, MaxRetrys, DefaultRetrys}

\* Option<&String>
None == [id |-> <<>>, some |-> FALSE]
Some(str) == [id |-> str, some |-> TRUE]
\* No stream name has been asked for yet.
NoName == [str |-> <<>>, set |-> FALSE]

\* A u32 as its two 16-bit halves, and whether computing it overflowed and
\* the task panicked.  No sleep yet: zero.
U32(hi, lo, panic) == [hi |-> hi, lo |-> lo, panic |-> panic]
NoSleep == U32(0, 0, FALSE)

\* VersionedState::new(data) of InMemoryStateRepository::new(State::default())
NewVersionedState == [version |-> StreamExists, data |-> init]

VARIABLES
    cells,          \* the heap of Arc<Mutex<InMemoryEventRepositoryState>> cells
    repo,           \* repo[h]: the HashMap of handle h, key -> cell (0: no entry)
    live,           \* the handles that have been constructed
    pc,             \* where the task of each handle stands
    op,             \* the operation the task is in
    stream_state,   \* execute's stream_id argument
    cmd,            \* execute's cmd argument
    retrys,         \* retrys.unwrap_or(20)
    ctx,            \* the id sequence of the task's decider context
    r,              \* the loop variable of execute
    decider_evts,   \* execute's decider_evts
    version,        \* execute's version, append's version argument
    state,          \* execute's state
    new_evts,       \* execute's new_evts, append's events argument
    stream,         \* execute's stream, append's stream argument
    position,       \* append's position (the version it returns)
    tag,            \* the number of the call the task is in
    ret,            \* what the task's last operation returned
    ncalls,         \* operations started so far
    overflow_checks,\* the build: arithmetic overflow panics (debug) or wraps
    snapshot,       \* the VersionedState of the InMemoryStateRepository
    stream_name,    \* ESDBEventRepository: the category it was built with
    stream_id,      \* the Option<&String> handed to get_stream
    name,           \* the stream name get_stream returned
    read,           \* what the last read of a server's repository returned
    slept,          \* the nanoseconds of execute's last thread::sleep
    esdb_streams,   \* the ESDB server: the events of each entity's stream
    redis_stream,   \* the Redis server: the entries of the one stream
    redis_json      \* the Redis server: the JSON snapshot of each key (none: <<>>)

vars == <<cells, repo, live, pc, op, stream_state, cmd, retrys, ctx, r,
          decider_evts, version, state, new_evts, stream, position, tag,
          ret, ncalls, overflow_checks, snapshot, stream_name, stream_id,
          name, read, slept, esdb_streams, redis_stream, redis_json>>

\* The variables of the backoff and of the servers' data.
backends == <<slept, esdb_streams, redis_stream, redis_json>>

\* The variables of the repositories that a server backs (ESDB, Redis).
esdb == <<stream_name, stream_id, name, read>>

locals == <<stream_state, cmd, retrys, ctx, r, decider_evts, version, state,
            new_evts, stream, position, tag>>

args == <<stream_state, cmd, retrys, ctx>>

(***************************************************************************)
(* InMemoryEventRepository::new("test") and a task that has not started.   *)
(***************************************************************************)
\* Everything but the ESDB repository's names.
Start ==
    /\ cells = <<>>
    /\ repo = [h \in Handles |-> [k \in Keys |-> 0]]
    /\ live = {1}
    /\ pc = [h \in Handles |-> "idle"]
    /\ op = [h \in Handles |-> "none"]
    /\ stream_state = [h \in Handles |-> New]
    /\ cmd = [h \in Handles |-> AddUser(1)]
    /\ retrys = [h \in Handles |-> DefaultRetrys]
    /\ ctx = [h \in Handles |-> 1]
    /\ r = [h \in Handles |-> 1]
    /\ decider_evts = [h \in Handles |-> <<>>]
    /\ version = [h \in Handles |-> Any]
    /\ state = [h \in Handles |-> init]
    /\ new_evts = [h \in Handles |-> <<>>]
    /\ stream = [h \in Handles |-> 1]
    /\ position = [h \in Handles |-> 0]
    /\ tag = [h \in Handles |-> 0]
    /\ ret = [h \in Handles |-> NoResult]
    /\ ncalls = 0
    /\ overflow_checks \in BOOLEAN
    /\ snapshot = NewVersionedState
    /\ slept = NoSleep
    /\ esdb_streams = [s \in Ids |-> <<>>]
    /\ redis_stream = <<>>
    /\ redis_json = [k \in Ids |-> <<>>]

Init ==
    /\ Start
    /\ stream_name = <<>>
    /\ stream_id = None
    /\ name = NoName
    /\ read = NoResult

(***************************************************************************)
(* The repository's operations on one handle's map m and the heap cs.      *)
(***************************************************************************)

\* get_stream_or_new: the entry of key, inserted with a fresh cell if the
\* handle's map has none
get_stream_or_new(m, cs, key) ==
    IF m[key] = 0
    THEN [cells |-> Append(cs, NewStreamState),
          map |-> [m EXCEPT ![key] = Len(cs) + 1]]
    ELSE [cells |-> cs, map |-> m]

\* append's guard: stream.position == Self::index_from_version(version)
GuardHolds(st, ver) == st.position = index_from_version(ver)

\* An extend that stops after the first event of the batch.
ExtendHead(st, evts) ==
    IF evts = <<>> THEN st
    ELSE [st EXCEPT !.events = Append(st.events, Head(evts)),
                    !.position = Len(st.events)]

\* usize arithmetic where the build does not check for overflow
wrapping_sub1(n) == IF n = 0 THEN UsizeMax ELSE n - 1
wrapping_add1(n) == IF n = UsizeMax THEN 0 ELSE n + 1

\* stream.events.len() - 1 overflows: the stream holds no event after the
\* extend.  With overflow checks the subtraction panics under the mutex.
Underflows(st, evts) == Len(st.events \o evts) = 0

\* stream.events.extend(events); stream.position = stream.events.len() - 1
Extend(st, evts) ==
    [st EXCEPT !.events = st.events \o evts,
               !.position = wrapping_sub1(Len(st.events \o evts))]

\* events[start..end].to_vec(): panics unless start <= end <= len
Slice(evts, start, end) ==
    IF start <= end /\ end <= Len(evts)
    THEN [evts |-> SubSeq(evts, start + 1, end), ok |-> TRUE]
    ELSE [evts |-> <<>>, ok |-> FALSE]

\* load_from_version(version, id) on the handle whose map is m
load_from_version(m, cs, ver, key) ==
    IF m[key] # 0
    THEN LET st == cs[m[key]]
             sl == Slice(st.events, index_from_version(ver),
                         wrapping_add1(st.position))
         IN  IF /\ ~st.poisoned
                /\ ~(overflow_checks /\ st.position = UsizeMax)
                /\ sl.ok
             THEN Ok(sl.evts, Exact(st.position))
             ELSE Panic
    ELSE Ok(<<>>, Exact(0))

\* The heap after load_from_version: the slice is taken with the cell's
\* MutexGuard alive, so a panic of the slice poisons the cell.
CellsAfterLoad(m, cs, ver, key) ==
    IF m[key] # 0 /\ load_from_version(m, cs, ver, key) = Panic
    THEN [cs EXCEPT ![m[key]].poisoned = TRUE]
    ELSE cs

\* load(id)
load(m, cs, key) == load_from_version(m, cs, Any, key)

KeyOf(s) == IF s = 0 THEN BaseKey ELSE StreamKey(s)

Idle(h) == h \in live /\ pc[h] = "idle"

\* The number of the next call of handle h: h, h + NumHandles, ...
NextTag(h) == IF tag[h] = 0 THEN h ELSE tag[h] + NumHandles

\* The return of an operation of handle h with result: its arguments and
\* locals go out of scope.
Return(h, result) ==
    /\ pc' = [pc EXCEPT ![h] = "idle"]
    /\ ret' = [ret EXCEPT ![h] = result]
    /\ stream_state' = [stream_state EXCEPT ![h] = New]
    /\ cmd' = [cmd EXCEPT ![h] = AddUser(1)]
    /\ retrys' = [retrys EXCEPT ![h] = DefaultRetrys]
    /\ ctx' = [ctx EXCEPT ![h] = 1]
    /\ r' = [r EXCEPT ![h] = 1]
    /\ decider_evts' = [decider_evts EXCEPT ![h] = <<>>]
    /\ version' = [version EXCEPT ![h] = Any]
    /\ state' = [state EXCEPT ![h] = init]
    /\ new_evts' = [new_evts EXCEPT ![h] = <<>>]
    /\ stream' = [stream EXCEPT ![h] = 1]
    /\ position' = [position EXCEPT ![h] = 0]

(***************************************************************************)
(* #[derive(Clone)]: the new handle gets a copy of the map of h.           *)
(***************************************************************************)
Clone(h) ==
    /\ Idle(h)
    /\ live # Handles
    /\ LET g == CHOOSE x \in Handles \ live :
                    \A y \in Handles \ live : x <= y
       IN  /\ live' = live \cup {g}
           /\ repo' = [repo EXCEPT ![g] = repo[h]]
    /\ UNCHANGED <<cells, pc, op, locals, ret, ncalls>>
    /\ UNCHANGED <<overflow_checks, snapshot>>
    /\ UNCHANGED <<esdb, backends>>

(***************************************************************************)
(* load / load_from_version called on handle h; s = 0 reads the category.  *)
(***************************************************************************)
LoadCall(h, ver, s) ==
    /\ Idle(h)
    /\ ncalls < MaxCalls
    /\ ncalls' = ncalls + 1
    /\ op' = [op EXCEPT ![h] = "load"]
    /\ tag' = [tag EXCEPT ![h] = NextTag(h)]
    /\ ret' = [ret EXCEPT ![h] = load_from_version(repo[h], cells, ver, KeyOf(s))]
    /\ cells' = CellsAfterLoad(repo[h], cells, ver, KeyOf(s))
    /\ UNCHANGED <<repo, live, pc, stream_state, cmd, retrys, ctx, r,
                   decider_evts, version, state, new_evts, stream, position>>
    /\ UNCHANGED <<overflow_checks, snapshot>>
    /\ UNCHANGED <<esdb, backends>>

(***************************************************************************)
(* append(version, stream, events) called on handle h.                     *)
(***************************************************************************)
AppendCall(h, ver, s, n) ==
    /\ Idle(h)
    /\ ncalls < MaxCalls
    /\ ncalls' = ncalls + 1
    /\ op' = [op EXCEPT ![h] = "append"]
    /\ pc' = [pc EXCEPT ![h] = "append"]
    /\ tag' = [tag EXCEPT ![h] = NextTag(h)]
    /\ version' = [version EXCEPT ![h] = ver]
    /\ stream' = [stream EXCEPT ![h] = s]
    /\ new_evts' = [new_evts EXCEPT ![h] = Batch(s, NextTag(h), n)]
    /\ ret' = [ret EXCEPT ![h] = NoResult]
    /\ UNCHANGED <<cells, repo, live, stream_state, cmd, retrys, ctx, r,
                   decider_evts, state, position>>
    /\ UNCHANGED <<overflow_checks, snapshot>>
    /\ UNCHANGED <<esdb, backends>>

\* append, lines 122-130 and 142-148: the section under the stream's mutex.
\* A conflict is returned to append's caller; execute goes on to catch up.
\* lock().unwrap() panics on a poisoned cell.
AppendStream(h) ==
    /\ h \in live
    /\ pc[h] = "append"
    /\ LET g == get_stream_or_new(repo[h], cells, StreamKey(stream[h]))
           c == g.map[StreamKey(stream[h])]
           st == g.cells[c]
       IN  /\ repo' = [repo EXCEPT ![h] = g.map]
           /\ IF st.poisoned
              THEN /\ cells' = g.cells
                   /\ Return(h, Panic)
              ELSE IF /\ GuardHolds(st, version[h])
                      /\ Underflows(st, new_evts[h])
                      /\ overflow_checks
              THEN /\ cells' = [g.cells EXCEPT ![c].poisoned = TRUE]
                   /\ Return(h, Panic)
              ELSE IF GuardHolds(st, version[h])
              THEN /\ cells' = [g.cells EXCEPT ![c] = Extend(st, new_evts[h])]
                   /\ position' = [position EXCEPT
                                     ![h] = Extend(st, new_evts[h]).position]
                   /\ pc' = [pc EXCEPT ![h] = "sub_stream"]
                   /\ UNCHANGED <<ret, args, r, decider_evts, version, state,
                                  new_evts, stream>>
              ELSE /\ cells' = g.cells
                   /\ IF op[h] = "execute"
                      THEN /\ pc' = [pc EXCEPT ![h] = "catchup"]
                           /\ UNCHANGED <<ret, args, r, decider_evts, version,
                                          state, new_evts, stream, position>>
                      ELSE Return(h, VersionConflict(VersionDiff(version[h],
                                         version_from_index(st.position))))
    /\ UNCHANGED <<live, op, tag, ncalls>>
    /\ UNCHANGED <<overflow_checks, snapshot>>
    /\ UNCHANGED <<esdb, backends>>

\* append, lines 133-141: the section under the category's mutex, and the
\* return of Ok((events, Exact(position))); execute returns Ok(appended_evts).
AppendSubStream(h) ==
    /\ h \in live
    /\ pc[h] = "sub_stream"
    /\ LET g == get_stream_or_new(repo[h], cells, BaseKey)
           c == g.map[BaseKey]
       IN  /\ repo' = [repo EXCEPT ![h] = g.map]
           /\ IF g.cells[c].poisoned
              THEN /\ cells' = g.cells
                   /\ Return(h, Panic)
              ELSE IF Underflows(g.cells[c], new_evts[h]) /\ overflow_checks
              THEN /\ cells' = [g.cells EXCEPT ![c].poisoned = TRUE]
                   /\ Return(h, Panic)
              ELSE /\ cells' = [g.cells EXCEPT
                                  ![c] = Extend(g.cells[c], new_evts[h])]
                   /\ Return(h, Ok(new_evts[h], Exact(position[h])))
    /\ UNCHANGED <<live, op, tag, ncalls>>
    /\ UNCHANGED <<overflow_checks, snapshot>>
    /\ UNCHANGED <<esdb, backends>>

(***************************************************************************)
(* LoadDecideAppend::execute(event_repository, stream_id, ctx, cmd, retrys)*)
(***************************************************************************)

\* Lines 103-111: the initial read and init().  New reads nothing and
\* expects NoStream; Existing(sid) loads the stream.  The call is made with
\* a new decider context (UserDeciderCtx::new()), whose id sequence is at 1.
ExecuteCall(h, ss, cm, rt) ==
    /\ Idle(h)
    /\ ncalls < MaxCalls
    /\ ncalls' = ncalls + 1
    /\ op' = [op EXCEPT ![h] = "execute"]
    /\ tag' = [tag EXCEPT ![h] = NextTag(h)]
    /\ LET l == IF ss.t = "New" THEN Ok(<<>>, NoStream)
                ELSE load(repo[h], cells, StreamKey(ss.id))
       IN  IF l.tag = "Ok"
           THEN /\ stream_state' = [stream_state EXCEPT ![h] = ss]
                /\ ctx' = [ctx EXCEPT ![h] = 1]
                /\ cmd' = [cmd EXCEPT ![h] = cm]
                /\ retrys' = [retrys EXCEPT ![h] = rt]
                /\ decider_evts' = [decider_evts EXCEPT ![h] = l.events]
                /\ version' = [version EXCEPT ![h] = l.version]
                /\ pc' = [pc EXCEPT ![h] = "attempt"]
                /\ ret' = [ret EXCEPT ![h] = NoResult]
                /\ UNCHANGED <<r, state, new_evts, stream, position>>
           ELSE Return(h, l)
    /\ cells' = IF ss.t = "New" THEN cells
                ELSE CellsAfterLoad(repo[h], cells, Any, StreamKey(ss.id))
    /\ UNCHANGED <<repo, live>>
    /\ UNCHANGED <<overflow_checks, snapshot>>
    /\ UNCHANGED <<esdb, backends>>

\* The state one attempt passes to decide (lines 114-116): the state of the
\* previous attempt folded over decider_evts.
AttemptState(h) == Fold(state[h], decider_evts[h])

\* Lines 113-130: the loop test, the fold, decide and the choice of the
\* stream; the attempt then calls append with execute's version.
Attempt(h) ==
    /\ h \in live
    /\ pc[h] = "attempt"
    /\ cmd[h].op = "AddUser" /\ r[h] < retrys[h] => ctx[h] <= NumIds
    /\ IF ~(r[h] < retrys[h])
       THEN Return(h, OccMaxRetries)
       ELSE LET d == decide(ctx[h], AttemptState(h), cmd[h], tag[h])
            IN  IF ~d.ok
                THEN Return(h, DecideErr)
                ELSE IF stream_state[h].t = "New" /\ d.evts = <<>>
                THEN Return(h, Ok(<<>>, Any))
                ELSE    /\ ctx' = [ctx EXCEPT ![h] = d.ctx]
                        /\ state' = [state EXCEPT ![h] = AttemptState(h)]
                        /\ new_evts' = [new_evts EXCEPT ![h] = d.evts]
                        /\ stream' = [stream EXCEPT ![h] =
                                        IF stream_state[h].t = "New"
                                        THEN StreamIdFrom(d.evts[1])
                                        ELSE stream_state[h].id]
                        /\ pc' = [pc EXCEPT ![h] = "append"]
                        /\ UNCHANGED <<ret, stream_state, cmd, retrys, r,
                                       decider_evts, version, position>>
    /\ UNCHANGED <<cells, repo, live, op, tag, ncalls>>
    /\ UNCHANGED <<overflow_checks, snapshot>>
    /\ UNCHANGED <<esdb, backends>>

\* What the catch-up read adds to decider_evts and makes of version
\* (lines 140-146), given the result l of load_from_version.
CatchUpEvents(evts, l) == evts \o l.events
\* A catch-up that keeps the version of the stream's first event.
CatchUpVersionStale(l) == Exact(0)
CatchUpVersion(l) == l.version

\* Lines 137-147: after a version conflict, load_from_version(&version,
\* Some(&stream)), then the next iteration of the loop.
CatchUp(h) ==
    /\ h \in live
    /\ pc[h] = "catchup"
    /\ LET l == load_from_version(repo[h], cells, version[h],
                                  StreamKey(stream[h]))
       IN  IF l.tag = "Ok"
           THEN /\ version' = [version EXCEPT ![h] = CatchUpVersion(l)]
                /\ decider_evts' = [decider_evts EXCEPT
                                      ![h] = CatchUpEvents(decider_evts[h], l)]
                /\ r' = [r EXCEPT ![h] = r[h] + 1]
                /\ pc' = [pc EXCEPT ![h] = "attempt"]
                /\ UNCHANGED <<ret, args, state, new_evts, stream, position>>
           ELSE Return(h, l)
    /\ cells' = CellsAfterLoad(repo[h], cells, version[h], StreamKey(stream[h]))
    /\ UNCHANGED <<repo, live, op, tag, ncalls>>
    /\ UNCHANGED <<overflow_checks, snapshot>>
    /\ UNCHANGED <<esdb, backends>>

(***************************************************************************)
(* Spec: a client of the repository's own operations, through one handle   *)
(* and its clones.                                                         *)
(***************************************************************************)
Next ==
    \/ \E h \in Handles : Clone(h)
    \/ \E h \in Handles, ver \in Versions, s \in {0} \cup Ids :
           LoadCall(h, ver, s)
    \/ \E h \in Handles, ver \in Versions, s \in Ids, n \in 0..2 :
           AppendCall(h, ver, s, n)
    \/ \E h \in Handles : AppendStream(h)
    \/ \E h \in Handles : AppendSubStream(h)

Spec == Init /\ [][Next]_vars

(***************************************************************************)
(* ExecSpec: tasks that run execute, each on its own handle.               *)
(***************************************************************************)
ExecNext ==
    \/ \E h \in Handles : Clone(h)
    \/ \E h \in Handles, ss \in StreamStates, cm \in Cmds,
          rt \in RetrysChoices : ExecuteCall(h, ss, cm, rt)
    \/ \E h \in Handles : Attempt(h)
    \/ \E h \in Handles : AppendStream(h)
    \/ \E h \in Handles : AppendSubStream(h)
    \/ \E h \in Handles : CatchUp(h)

ExecSpec == Init /\ [][ExecNext]_vars

(***************************************************************************)
(* What the properties below speak about.                                  *)
(***************************************************************************)

\* The events handle h finds in stream s (none when its map has no entry).
StreamEvents(h, s) ==
    IF repo[h][KeyOf(s)] = 0 THEN <<>> ELSE cells[repo[h][KeyOf(s)]].events

\* The last version of stream s as handle h finds it: the index of its last
\* event, and NoStream while it holds none.
LastVersion(h, s) ==
    IF StreamEvents(h, s) = <<>> THEN NoStream
    ELSE Exact(Len(StreamEvents(h, s)) - 1)

\* The step in which handle h runs append's guard, and its two outcomes.
AppendStep(h) == h \in live /\ pc[h] = "append" /\ pc'[h] # "append"
AppendPassed(h) == AppendStep(h) /\ pc'[h] = "sub_stream"
AppendFailed(h) ==
    AppendStep(h) /\ pc'[h] # "sub_stream" /\ ret'[h].tag # "Panic"
ConflictReported(h) ==
    IF op[h] = "execute" THEN pc'[h] = "catchup"
    ELSE pc'[h] = "idle" /\ ret'[h].tag = "VersionConflict"

\* C5: an append with expected version Exact(v) succeeds exactly when the
\* last version of the target stream at that moment is Exact(v); in every
\* other case it reports a version conflict.
C5_ExactAppendIffLastVersion ==
    [][\A h \in Handles :
          AppendStep(h) /\ version[h].t = "Exact"
          => /\ AppendPassed(h) <=> LastVersion(h, stream[h]) = version[h]
             /\ ~AppendPassed(h) => ConflictReported(h)]_vars

\* C6: an append whose guard fails writes nothing: no cell changes, and
\* every read of every stream and of the category, through every handle,
\* returns what it returned before the call.
C6_FailedAppendWritesNothing ==
    [][\A h \in Handles :
          AppendFailed(h)
          => /\ \A i \in 1..Len(cells) : cells'[i] = cells[i]
             /\ \A g \in live, s \in {0} \cup Ids :
                    load(repo'[g], cells', KeyOf(s))
                        = load(repo[g], cells, KeyOf(s))]_vars

\* C8: an append guarded by NoStream passes only on a stream without
\* events, one guarded by StreamExists only on a stream with events.
C8_NoStreamAndStreamExistsGuards ==
    [][\A h \in Handles :
          AppendPassed(h)
          => /\ version[h] = NoStream => StreamEvents(h, stream[h]) = <<>>
             /\ version[h] = StreamExists
                    => StreamEvents(h, stream[h]) # <<>>]_vars

\* C9: an append with expected version Any skips the guard and never
\* reports a version conflict, whatever the stream holds.
C9_AnyNeverConflicts ==
    [][\A h \in Handles :
          AppendStep(h) /\ version[h] = Any => ~ConflictReported(h)]_vars

\* C10: load returns the stream's events in append order with its last
\* version, and an empty list with NoStream for a stream that does not exist.
C10_LoadReturnsEventsAndVersion ==
    [][\A h \in Handles, s \in {0} \cup Ids :
          LoadCall(h, Any, s)
          => ret'[h] = Ok(StreamEvents(h, s), LastVersion(h, s))]_vars

(***************************************************************************)
(* Properties of execute.                                                  *)
(***************************************************************************)

\* The step in which an attempt of execute decides and goes on to append,
\* and the step in which it catches up after a conflict.
AttemptStep(h) == h \in live /\ pc[h] = "attempt" /\ pc'[h] = "append"
CatchUpStep(h) == h \in live /\ pc[h] = "catchup" /\ pc'[h] = "attempt"

\* The events of a stream up to version ver: the first v + 1 for Exact(v),
\* none for NoStream.
UpTo(evts, ver) ==
    IF ver.t = "Exact"
    THEN SubSeq(evts, 1, IF ver.v + 1 <= Len(evts) THEN ver.v + 1 ELSE Len(evts))
    ELSE <<>>

\* The number of events a stream at version new holds beyond version old.
Missed(old, new) == IF old.t = "Exact" THEN new.v - old.v ELSE new.v + 1

\* C1: every append of execute that succeeds was decided against the state
\* built from exactly the events the stream holds just before the append,
\* and folding the stream after the append gives that state extended by the
\* events decide produced.
C1_DecidedOnCurrentStream ==
    [][\A h \in Handles :
          AppendPassed(h) /\ op[h] = "execute"
          => /\ state[h] = Fold(init, StreamEvents(h, stream[h]))
             /\ Fold(init, StreamEvents(h, stream[h])')
                    = Fold(state[h], new_evts[h])]_vars

\* evs is a concatenation of whole batches, each in the order of decide.
RECURSIVE IsBatches(_)
IsBatches(evs) ==
    IF evs = <<>> THEN TRUE
    ELSE /\ Head(evs).k = 1
         /\ Head(evs).n <= Len(evs)
         /\ SubSeq(evs, 1, Head(evs).n)
                = Batch(Head(evs).id, Head(evs).tag, Head(evs).n)
         /\ IsBatches(SubSeq(evs, Head(evs).n + 1, Len(evs)))

\* C2: at every moment the events of every stream are a concatenation of
\* whole per-call batches: a call's events are contiguous, in the order
\* decide produced them, and not interleaved with another call's.
C2_WholeBatches ==
    \A i \in 1..Len(cells) : IsBatches(cells[i].events)

\* A stream holds batches of calls made through two handles, one of them of
\* two events, while another call on that stream is catching up after a
\* conflict.
C2_Witness ==
    \E h \in live, s \in Ids :
        /\ \E i, j \in 1..Len(StreamEvents(h, s)) :
              /\ StreamEvents(h, s)[i].tag % NumHandles
                     # StreamEvents(h, s)[j].tag % NumHandles
              /\ StreamEvents(h, s)[i].n = 2
        /\ \E g \in live : pc[g] = "catchup" /\ stream[g] = s /\ op[g] = "execute"

\* C4, for execute on an Existing stream: the state an attempt passes to
\* decide is init folded once over the stream's events up to the version the
\* attempt guards its append with, and a catch-up adds only the events
\* missed since the previous attempt.
C4_StateFoldedOnce ==
    [][\A h \in Handles :
          stream_state[h].t = "Existing"
          => /\ AttemptStep(h)
                   => state'[h] = Fold(init, UpTo(StreamEvents(h, stream'[h]),
                                                  version[h]))
             /\ CatchUpStep(h)
                   => Len(decider_evts'[h]) - Len(decider_evts[h])
                          = Missed(version[h], version'[h])]_vars

\* The NoStream-guarded first append of an execute call with StreamState::New
\* has passed.
FirstAppendPassed(h) ==
    /\ h \in live
    /\ op[h] = "execute"
    /\ stream_state[h] = New
    /\ version[h] = NoStream
    /\ pc[h] = "sub_stream"

\* C7: of two concurrent execute calls with StreamState::New that derive
\* the same stream id, only one has its NoStream-guarded first append pass.
C7_OneFirstAppendWins ==
    \A h, g \in Handles :
        h # g /\ FirstAppendPassed(h) /\ FirstAppendPassed(g)
        => stream[h] # stream[g]

(***************************************************************************)
(* OccSpec: test_versioned_event_repository_with_streams_occ.  One user    *)
(* has been added by execute(New) through the first handle, every task has *)
(* its clone of the repository, and the tasks run add_guitar: execute on   *)
(* the user's Existing stream with a command the decider accepts whatever  *)
(* the other tasks have committed.                                         *)
(***************************************************************************)
OccEvent == Evt(1, 1, 1, 1)
OccCell == [events |-> <<OccEvent>>, position |-> 0, poisoned |-> FALSE]

OccInit ==
    /\ cells = <<OccCell, OccCell>>
    /\ repo = [h \in Handles |->
                 [k \in Keys |-> IF k = StreamKey(1) THEN 1
                                 ELSE IF k = BaseKey THEN 2 ELSE 0]]
    /\ live = Handles
    /\ pc = [h \in Handles |-> "idle"]
    /\ op = [h \in Handles |-> IF h = 1 THEN "execute" ELSE "none"]
    /\ stream_state = [h \in Handles |-> New]
    /\ cmd = [h \in Handles |-> AddUser(1)]
    /\ retrys = [h \in Handles |-> DefaultRetrys]
    /\ ctx = [h \in Handles |-> 1]
    /\ r = [h \in Handles |-> 1]
    /\ decider_evts = [h \in Handles |-> <<>>]
    /\ version = [h \in Handles |-> Any]
    /\ state = [h \in Handles |-> init]
    /\ new_evts = [h \in Handles |-> <<>>]
    /\ stream = [h \in Handles |-> 1]
    /\ position = [h \in Handles |-> 0]
    /\ tag = [h \in Handles |-> IF h = 1 THEN 1 ELSE 0]
    /\ ret = [h \in Handles |->
                IF h = 1 THEN Ok(<<OccEvent>>, Exact(0)) ELSE NoResult]
    /\ ncalls = 1
    /\ overflow_checks \in BOOLEAN
    /\ snapshot = NewVersionedState
    /\ slept = NoSleep
    /\ esdb_streams = [s \in Ids |-> <<>>]
    /\ redis_stream = <<>>
    /\ redis_json = [k \in Ids |-> <<>>]
    /\ stream_name = <<>>
    /\ stream_id = None
    /\ name = NoName
    /\ read = NoResult

OccNext ==
    \/ \E h \in Handles, rt \in RetrysChoices :
           ExecuteCall(h, Existing(1), AddGuitar(1), rt)
    \/ \E h \in Handles : Attempt(h)
    \/ \E h \in Handles : AppendStream(h)
    \/ \E h \in Handles : AppendSubStream(h)
    \/ \E h \in Handles : CatchUp(h)

OccSpec == OccInit /\ [][OccNext]_vars

\* Every task that has started execute is scheduled until it returns.
OccFairness ==
    \A h \in Handles :
        /\ WF_vars(Attempt(h))
        /\ WF_vars(AppendStream(h))
        /\ WF_vars(AppendSubStream(h))
        /\ WF_vars(CatchUp(h))

FairOccSpec == OccSpec /\ OccFairness

\* The commands run against the user's stream, and the events of that stream.
NumCmds == MaxCalls - 1
OccStream == cells[1].events
Count(evs, t) == Cardinality({i \in 1..Len(evs) : evs[i].tag = t})
ReturnStep(h) == h \in live /\ pc[h] # "idle" /\ pc'[h] = "idle"

\* C3: of N commands the decider accepts in every order, run concurrently
\* through execute on the same Existing stream, every one called with a
\* retry bound above N eventually returns, it returns Ok with its batch in
\* the stream once, and at every moment the stream is its initial event
\* followed by whole batches, none of them twice, and only grows.
C3_AllCommandsCommitOnce ==
    /\ [][\A h \in Handles :
             ReturnStep(h) /\ NumCmds < retrys[h]
             => ret'[h].tag = "Ok" /\ Count(OccStream', tag[h]) = 1]_vars
    /\ [](/\ Head(OccStream) = OccEvent
          /\ IsBatches(OccStream)
          /\ \A i, j \in 1..Len(OccStream) :
                 i # j => OccStream[i].tag # OccStream[j].tag)
    /\ [][SubSeq(OccStream', 1, Len(OccStream)) = OccStream]_vars
    /\ \A h \in Handles :
           (pc[h] # "idle" /\ NumCmds < retrys[h]) ~> (pc[h] = "idle")

\* The last of the commands commits at its second attempt, the last one its
\* retry bound allows, and the stream holds the initial event and one event
\* of every command.
C3_Witness ==
    \E h \in Handles :
        /\ pc[h] = "sub_stream"
        /\ r[h] = 2
        /\ retrys[h] = MaxRetrys
        /\ Len(OccStream) = 1 + NumCmds

(***************************************************************************)
(* Reads from a version.                                                   *)
(***************************************************************************)

\* C11: load_from_version(Exact(v), stream) returns exactly the events
\* appended after version v, in order, and not the event at version v.
C11_LoadFromVersionExclusive ==
    [][\A h \in Handles, s \in {0} \cup Ids, v \in 0..MaxVersion :
          LoadCall(h, Exact(v), s) /\ ret'[h].tag = "Ok"
          => ret'[h].events = SubSeq(StreamEvents(h, s), v + 2,
                                     Len(StreamEvents(h, s)))]_vars

(***************************************************************************)
(* Errors of execute.                                                      *)
(***************************************************************************)

\* The attempt handle h is about to make runs decide on a command the
\* decider rejects: the entity the command names is not in the state.
Rejects(h) ==
    /\ h \in live
    /\ pc[h] = "attempt"
    /\ r[h] < retrys[h]
    /\ cmd[h].op = "AddGuitar"
    /\ ~HasEntity(AttemptState(h), cmd[h].id)

RepoErrors == {"connection", "write"}
\* The error a result carries stands where a version would.
ErrorOf(res) == res.version.t
RepoErr(e) == Result("RepoErr", <<>>, [t |-> e, v |-> 0], NoDiff)
RepositoryErr(e) == Result("RepositoryErr", <<>>, [t |-> e, v |-> 0], NoDiff)
VersionError == Result("VersionError", <<>>, Any, NoDiff)

\* A to_lda_error that reports every error of a read as a version error.
to_lda_error_version(err) == VersionError

\* to_lda_error: what execute makes of the error of a read
to_lda_error(err) ==
    IF err.tag = "VersionConflict" THEN VersionError
    ELSE RepositoryErr(ErrorOf(err))

\* Line 133-136: what execute makes of an error of append that is no
\* version conflict
AppendRepoErr(err) == RepositoryErr(ErrorOf(err))

\* Lines 105-108: the initial load of Existing(sid) fails.
ExecuteLoadFails(h, ss, cm, rt, e) ==
    /\ Idle(h)
    /\ ncalls < MaxCalls
    /\ ss.t = "Existing"
    /\ ncalls' = ncalls + 1
    /\ op' = [op EXCEPT ![h] = "execute"]
    /\ tag' = [tag EXCEPT ![h] = NextTag(h)]
    /\ Return(h, to_lda_error(RepoErr(e)))
    /\ UNCHANGED <<cells, repo, live>>
    /\ UNCHANGED <<overflow_checks, snapshot>>
    /\ UNCHANGED <<esdb, backends>>

\* Lines 131-136: append fails.
AppendFails(h, e) ==
    /\ h \in live
    /\ pc[h] = "append"
    /\ op[h] = "execute"
    /\ Return(h, AppendRepoErr(RepoErr(e)))
    /\ UNCHANGED <<cells, repo, live, op, tag, ncalls>>
    /\ UNCHANGED <<overflow_checks, snapshot>>
    /\ UNCHANGED <<esdb, backends>>

\* Lines 140-143: the catch-up load_from_version fails.
CatchUpFails(h, e) ==
    /\ h \in live
    /\ pc[h] = "catchup"
    /\ Return(h, to_lda_error(RepoErr(e)))
    /\ UNCHANGED <<cells, repo, live, op, tag, ncalls>>
    /\ UNCHANGED <<overflow_checks, snapshot>>
    /\ UNCHANGED <<esdb, backends>>

\* The commands and retry budgets of the executes that meet a failing
\* repository: single-event batches, and a budget that allows a catch-up.
FailCmds == {AddUser(1)} \cup {AddGuitar(i) : i \in Ids}
FailRetrys == {MaxRetrys}

FailNext ==
    \/ \E h \in Handles : Clone(h)
    \/ \E h \in Handles, ss \in StreamStates, cm \in FailCmds,
          rt \in FailRetrys : ExecuteCall(h, ss, cm, rt)
    \/ \E h \in Handles : Attempt(h)
    \/ \E h \in Handles : AppendStream(h)
    \/ \E h \in Handles : AppendSubStream(h)
    \/ \E h \in Handles : CatchUp(h)
    \/ \E h \in Handles, ss \in StreamStates, cm \in FailCmds,
          rt \in FailRetrys, e \in RepoErrors :
              ExecuteLoadFails(h, ss, cm, rt, e)
    \/ \E h \in Handles, e \in RepoErrors : AppendFails(h, e)
    \/ \E h \in Handles, e \in RepoErrors : CatchUpFails(h, e)

FailSpec == Init /\ [][FailNext]_vars

\* C13: a repository failure that is no version conflict, in the initial
\* load, in append or in the catch-up load_from_version, ends execute in
\* that step with RepositoryErr carrying the repository's error, and every
\* RepositoryErr execute returns is such a failure.
C13_RepoErrSurfacesAtOnce ==
    [][\A h \in Handles :
          /\ \A e \in RepoErrors :
                \/ AppendFails(h, e)
                \/ CatchUpFails(h, e)
                \/ \E ss \in StreamStates, cm \in Cmds, rt \in RetrysChoices :
                       ExecuteLoadFails(h, ss, cm, rt, e)
                => /\ pc'[h] = "idle"
                   /\ ret'[h] = RepositoryErr(e)
                   /\ cells' = cells
          /\ ret'[h].tag = "RepositoryErr"
                /\ (ReturnStep(h) \/ tag'[h] # tag[h])
                => \E e \in RepoErrors :
                       \/ AppendFails(h, e)
                       \/ CatchUpFails(h, e)
                       \/ \E ss \in StreamStates, cm \in Cmds,
                             rt \in RetrysChoices :
                                 ExecuteLoadFails(h, ss, cm, rt, e)]_vars

\* A call has returned RepositoryErr while another call is committing, on
\* a repository with a stream of two events or more.
C13_Witness ==
    \E h \in Handles :
        /\ pc[h] = "idle"
        /\ ret[h].tag = "RepositoryErr"
        /\ \E g \in Handles : g # h /\ pc[g] = "sub_stream"
        /\ \E i \in 1..Len(cells) : Len(cells[i].events) >= 2

\* The attempts a call of execute has completed: each ended in a version
\* conflict and a catch-up, which moved the loop on by one.
AttemptsMade(h) == r[h] - 1

\* C14: execute returns OccMaxRetries only after `retrys` attempts have each
\* ended in a version conflict; in particular with retrys = 1 the single
\* attempt is made.
C14_MaxRetriesAfterAllAttempts ==
    [][\A h \in Handles :
          ReturnStep(h) /\ op[h] = "execute" /\ ret'[h] = OccMaxRetries
          => AttemptsMade(h) = retrys[h]]_vars

\* The task h is about to run decide on a command that produces no event.
DecidesNothing(h) ==
    /\ h \in live /\ pc[h] = "attempt" /\ r[h] < retrys[h]
    /\ cmd[h] = Noop

\* C15: when decide returns no event for StreamState::New, execute returns
\* Ok with an empty list at once, without an append: the step that ends the
\* call, like the step that started it, leaves every stream and the
\* repository's map of streams (per-entity and category entries) as they
\* were.
C15_EmptyNewAppendsNothing ==
    [][\A h \in Handles :
          /\ DecidesNothing(h) /\ stream_state[h].t = "New"
             /\ pc'[h] # "attempt"
                => /\ pc'[h] = "idle" /\ ret'[h] = Ok(<<>>, Any)
                   /\ cells' = cells /\ repo' = repo
          /\ Idle(h) /\ pc'[h] = "attempt" /\ stream_state'[h].t = "New"
                => cells' = cells /\ repo' = repo]_vars

\* An execute of a New stream has returned Ok with no event, and no task's
\* repository holds any stream or category entry.
C15_Witness ==
    \E h \in Handles :
        /\ pc[h] = "idle" /\ op[h] = "execute" /\ ret[h] = Ok(<<>>, Any)
        /\ cells = <<>>
        /\ \A g \in live, k \in Keys : repo[g][k] = 0

\* The task h runs an execute of an existing stream whose command produces
\* no event, and takes a step of it.
EmptyExistingStep(h) ==
    /\ h \in live /\ op[h] = "execute" /\ cmd[h] = Noop
    /\ stream_state[h].t = "Existing"
    /\ pc[h] \in {"attempt", "append", "sub_stream"} /\ r[h] < retrys[h]
    /\ pc'[h] # pc[h]

\* C16: when decide returns no event for StreamState::Existing(id), no step
\* of the execute changes what a load of the stream id returns (its events
\* and its version), whether or not the stream holds events yet, and the
\* call ends with Ok and an empty list unless it met a version conflict.
C16_EmptyExistingLeavesStream ==
    [][\A h \in Handles :
          EmptyExistingStep(h)
          => /\ load(repo'[h], cells', StreamKey(stream_state[h].id))
                    = load(repo[h], cells, StreamKey(stream_state[h].id))
             /\ pc'[h] = "idle" => ret'[h].tag = "Ok" /\ ret'[h].events = <<>>
      ]_vars

(***************************************************************************)
(* Executes of StreamState::New that share decider contexts                *)
(***************************************************************************)

\* execute(repo, &StreamState::New, &mut ctx, &cmd, retrys) with a decider
\* context the caller has used before: its id sequence stands at c0 (the
\* test load_decide_append_basic_function passes one ctx to all its calls).
ExecuteWithCtx(h, cm, rt, c0) ==
    /\ Idle(h)
    /\ ncalls < MaxCalls
    /\ ncalls' = ncalls + 1
    /\ op' = [op EXCEPT ![h] = "execute"]
    /\ tag' = [tag EXCEPT ![h] = NextTag(h)]
    /\ stream_state' = [stream_state EXCEPT ![h] = New]
    /\ ctx' = [ctx EXCEPT ![h] = c0]
    /\ cmd' = [cmd EXCEPT ![h] = cm]
    /\ retrys' = [retrys EXCEPT ![h] = rt]
    /\ decider_evts' = [decider_evts EXCEPT ![h] = <<>>]
    /\ version' = [version EXCEPT ![h] = NoStream]
    /\ pc' = [pc EXCEPT ![h] = "attempt"]
    /\ ret' = [ret EXCEPT ![h] = NoResult]
    /\ UNCHANGED <<r, state, new_evts, stream, position>>
    /\ UNCHANGED <<cells, repo, live>>
    /\ UNCHANGED <<overflow_checks, snapshot>>
    /\ UNCHANGED <<esdb, backends>>

NewNext ==
    \/ \E h \in Handles : Clone(h)
    \/ \E h \in Handles, n \in 1..2, rt \in RetrysChoices, c0 \in Ids :
           ExecuteWithCtx(h, AddUser(n), rt, c0)
    \/ \E h \in Handles : Attempt(h)
    \/ \E h \in Handles : AppendStream(h)
    \/ \E h \in Handles : AppendSubStream(h)
    \/ \E h \in Handles : CatchUp(h)

NewSpec == Init /\ [][NewNext]_vars

\* The events of the per-entity stream s in the repository with map m.
EventsIn(m, cs, s) ==
    IF m[StreamKey(s)] = 0 THEN <<>> ELSE cs[m[StreamKey(s)]].events

\* The step in which the append of an execute of StreamState::New passes.
NewAppendStep(h) ==
    /\ h \in live /\ op[h] = "execute" /\ stream_state[h].t = "New"
    /\ pc[h] = "append" /\ pc'[h] = "sub_stream"

\* Any other step of an execute of StreamState::New.
NewOtherStep(h) ==
    /\ h \in live /\ op[h] = "execute" /\ stream_state[h].t = "New"
    /\ pc[h] # "idle" /\ pc'[h] # pc[h]
    /\ ~NewAppendStep(h)

\* C17: an execute of StreamState::New that succeeds appends all the events
\* decide produced, in order, to the one stream named by the first event's
\* entity id, and returns them; that step changes no other per-entity stream
\* (neither its events nor its entry), and no other step of the call changes
\* the events of any per-entity stream.  So two New commands with different
\* entity ids leave two streams of one batch each.
C17_NewAppendsToOneStream ==
    [][\A h \in Handles :
          /\ NewAppendStep(h)
             => /\ stream[h] = new_evts[h][1].id
                /\ EventsIn(repo'[h], cells', stream[h])
                      = EventsIn(repo[h], cells, stream[h]) \o new_evts[h]
                /\ \A g \in Handles, s \in Ids \ {stream[h]} :
                      /\ EventsIn(repo'[g], cells', s)
                            = EventsIn(repo[g], cells, s)
                      /\ repo'[g][StreamKey(s)] = repo[g][StreamKey(s)]
          /\ NewOtherStep(h)
             => /\ \A g \in Handles, s \in Ids :
                      EventsIn(repo'[g], cells', s)
                         = EventsIn(repo[g], cells, s)
                /\ pc'[h] = "idle" /\ ret'[h].tag = "Ok"
                      => ret'[h].events = new_evts[h]]_vars

\* Two executes of New with the entity ids 1 and 2 have returned: the
\* streams 1 and 2 hold one batch each, from different calls.
C17_Witness ==
    /\ ncalls = 2 /\ \A h \in Handles : pc[h] = "idle"
    /\ \E h \in Handles, t1, t2 \in 1..(NumHandles * MaxCalls), n1, n2 \in 1..2 :
          /\ t1 # t2
          /\ StreamEvents(h, 1) = Batch(1, t1, n1)
          /\ StreamEvents(h, 2) = Batch(2, t2, n2)

\* How often the event e occurs in the list evs.
Occurrences(evs, e) == Cardinality({i \in 1..Len(evs) : evs[i] = e})

\* No append is in progress: every task is between two calls.
NoAppendInProgress == \A h \in Handles : pc[h] = "idle"

\* C18: whenever no append is in progress, a category read load(None) that
\* a task makes returns every event held by a per-entity stream of the
\* repository (as any task finds it) exactly once, and no event that no
\* per-entity stream holds.
C18_CategoryCoverage ==
    NoAppendInProgress =>
        \A h \in Handles :
            LET l == load(repo[h], cells, BaseKey)
            IN  h \in live /\ l.tag = "Ok" =>
                  /\ \A g \in Handles, s \in Ids :
                        g \in live =>
                          \A i \in 1..Len(StreamEvents(g, s)) :
                             Occurrences(l.events, StreamEvents(g, s)[i]) = 1
                  /\ \A i \in 1..Len(l.events) :
                        \E g \in Handles, s \in Ids :
                           /\ g \in live
                           /\ Occurrences(StreamEvents(g, s), l.events[i]) > 0

\* The position of stream s as task h finds it: the version its last
\* successful append returned, once it holds events.
PositionOf(h, s) ==
    IF repo[h][KeyOf(s)] = 0 THEN 0 ELSE cells[repo[h][KeyOf(s)]].position

\* C19: a successful append B on a stream that an earlier successful append
\* A has written returns a version strictly greater than the one A returned
\* (the stream's position before B), and no step makes the position of a
\* stream smaller.
C19_VersionsGrow ==
    [][/\ \A h \in Handles :
             AppendPassed(h) /\ StreamEvents(h, stream[h]) # <<>>
             => position'[h] > PositionOf(h, stream[h])
       /\ \A c \in 1..Len(cells) : cells'[c].position >= cells[c].position
      ]_vars

\* C20: load and load_from_version do not alter the repository: a load
\* leaves every stream and every task's map of streams as they were (it
\* creates and changes no stream), and the same load made again right after
\* it returns the same events and version.
C20_LoadsAlterNothing ==
    [][\A h \in Handles, ver \in Versions, s \in {0} \cup Ids :
          LoadCall(h, ver, s)
          => /\ cells' = cells /\ repo' = repo
             /\ load_from_version(repo'[h], cells', ver, KeyOf(s)) = ret'[h]
      ]_vars

(***************************************************************************)
(* InMemoryStateRepository<State> (repository/in_memory/state/versioned.rs)*)
(* Its one field is an Arc<Mutex<VersionedState>>: every clone shares the  *)
(* snapshot.  reify and save are one critical section each.  The State is  *)
(* the one of the recording evolver.                                       *)
(***************************************************************************)

\* version_to_usize: Exact(v) is v, NoStream and StreamExists are 0, and
\* Any is the error ExactStreamVersionMustBeKnown.
version_to_usize(ver) == IF ver.t = "Exact" THEN ver.v ELSE 0
MustBeKnown(ver) == ver.t = "Any"

\* A check that lets every version pass.
version_checkNone(current, incoming) == Ok(<<>>, Any)

\* version_check(current, incoming); the `?` on current comes first.
version_check(current, incoming) ==
    IF MustBeKnown(current) \/ MustBeKnown(incoming)
    THEN RepoErr("ExactStreamVersionMustBeKnown")
    ELSE IF version_to_usize(current) = version_to_usize(incoming)
    THEN Ok(<<>>, Any)
    ELSE VersionConflict(VersionDiff(current, incoming))

\* A bump that skips a version.
bump_versionTwice(ver) == Exact(version_to_usize(ver) + 2)

\* bump_version: Exact(version_to_usize(version) + 1).  The stored version
\* counts the saves of a run and stays far below UsizeMax.
bump_version(ver) == Exact(wrapping_add1(version_to_usize(ver)))

\* save(&mut self, version, state): the new snapshot and the result.
save(snap, ver, st) ==
    LET c == version_check(snap.version, ver)
    IN  IF c.tag = "Ok"
        THEN [res |-> Ok(st, Any),
              snap |-> [version |-> bump_version(snap.version), data |-> st]]
        ELSE [res |-> c, snap |-> snap]

\* reify(&self): (handle.data.to_owned(), handle.version)
reify(snap) == Ok(snap.data, snap.version)

\* A client calls save on its handle with a version and a state.
SaveCall(h, ver, st) ==
    /\ Idle(h)
    /\ ncalls < MaxCalls
    /\ ncalls' = ncalls + 1
    /\ op' = [op EXCEPT ![h] = "save"]
    /\ tag' = [tag EXCEPT ![h] = NextTag(h)]
    /\ snapshot' = save(snapshot, ver, st).snap
    /\ ret' = [ret EXCEPT ![h] = save(snapshot, ver, st).res]
    /\ UNCHANGED <<cells, repo, live, pc, stream_state, cmd, retrys, ctx, r,
                   decider_evts, version, state, new_evts, stream, position>>
    /\ UNCHANGED overflow_checks
    /\ UNCHANGED <<esdb, backends>>

\* A client calls reify on its handle.
ReifyCall(h) ==
    /\ Idle(h)
    /\ ncalls < MaxCalls
    /\ ncalls' = ncalls + 1
    /\ op' = [op EXCEPT ![h] = "reify"]
    /\ tag' = [tag EXCEPT ![h] = NextTag(h)]
    /\ ret' = [ret EXCEPT ![h] = reify(snapshot)]
    /\ UNCHANGED <<cells, repo, live, pc, stream_state, cmd, retrys, ctx, r,
                   decider_evts, version, state, new_evts, stream, position>>
    /\ UNCHANGED <<overflow_checks, snapshot>>
    /\ UNCHANGED <<esdb, backends>>

(***************************************************************************)
(* ReifyDecideSave::execute_reify_decide(state_repository, ctx, cmd,       *)
(* retrys).  ctx is a shared reference: decide cannot advance it.          *)
(***************************************************************************)

\* Lines 180-183: the first reify.
ExecuteReifyCall(h, cm, rt) ==
    /\ Idle(h)
    /\ ncalls < MaxCalls
    /\ ncalls' = ncalls + 1
    /\ op' = [op EXCEPT ![h] = "execute_reify_decide"]
    /\ tag' = [tag EXCEPT ![h] = NextTag(h)]
    /\ cmd' = [cmd EXCEPT ![h] = cm]
    /\ retrys' = [retrys EXCEPT ![h] = rt]
    /\ state' = [state EXCEPT ![h] = reify(snapshot).events]
    /\ version' = [version EXCEPT ![h] = reify(snapshot).version]
    /\ pc' = [pc EXCEPT ![h] = "save"]
    /\ ret' = [ret EXCEPT ![h] = NoResult]
    /\ UNCHANGED <<cells, repo, live, stream_state, ctx, r, decider_evts,
                   new_evts, stream, position>>
    /\ UNCHANGED <<overflow_checks, snapshot>>
    /\ UNCHANGED <<esdb, backends>>

\* A decision that accepts every command.
ReifyDecisionUnchecked(h) == decideUnchecked(ctx[h], state[h], cmd[h], tag[h])

\* What decide returns to the task h in this iteration (lines 186-188).
ReifyDecision(h) == decide(ctx[h], state[h], cmd[h], tag[h])

\* new_state: the events folded into the local state (lines 190-192).
NewState(h) == Fold(state[h], ReifyDecision(h).evts)

\* Lines 185-196: the loop test, decide, the fold and save.
SaveAttempt(h) ==
    /\ h \in live
    /\ pc[h] = "save"
    /\ IF ~(r[h] < retrys[h])
       THEN /\ Return(h, OccMaxRetries)
            /\ UNCHANGED snapshot
       ELSE IF ~ReifyDecision(h).ok
       THEN /\ Return(h, DecideErr)
            /\ UNCHANGED snapshot
       ELSE LET sv == save(snapshot, version[h], NewState(h))
            IN  /\ snapshot' = sv.snap
                /\ IF sv.res.tag = "Ok"
                   THEN Return(h, sv.res)
                   ELSE IF sv.res.tag = "RepoErr"
                   THEN Return(h, RepositoryErr(ErrorOf(sv.res)))
                   ELSE /\ pc' = [pc EXCEPT ![h] = "reify"]
                        /\ new_evts' = [new_evts EXCEPT
                                          ![h] = ReifyDecision(h).evts]
                        /\ UNCHANGED <<ret, args, r, decider_evts, version,
                                       state, stream, position>>
    /\ UNCHANGED <<cells, repo, live, op, tag, ncalls>>
    /\ UNCHANGED overflow_checks
    /\ UNCHANGED <<esdb, backends>>

\* Lines 200-205: after a version conflict, reify again.
ReReify(h) ==
    /\ h \in live
    /\ pc[h] = "reify"
    /\ state' = [state EXCEPT ![h] = reify(snapshot).events]
    /\ version' = [version EXCEPT ![h] = reify(snapshot).version]
    /\ r' = [r EXCEPT ![h] = r[h] + 1]
    /\ pc' = [pc EXCEPT ![h] = "save"]
    /\ new_evts' = [new_evts EXCEPT ![h] = <<>>]
    /\ UNCHANGED <<cells, repo, live, op, tag, ncalls, ret, args,
                   decider_evts, stream, position>>
    /\ UNCHANGED <<overflow_checks, snapshot>>
    /\ UNCHANGED <<esdb, backends>>

StateNext ==
    \/ \E h \in Handles : Clone(h)
    \/ \E h \in Handles, ver \in Versions, s \in Ids :
           SaveCall(h, ver, Batch(s, NextTag(h), 1))
    \/ \E h \in Handles : ReifyCall(h)
    \/ \E h \in Handles, cm \in Cmds, rt \in RetrysChoices :
           ExecuteReifyCall(h, cm, rt)
    \/ \E h \in Handles : SaveAttempt(h)
    \/ \E h \in Handles : ReReify(h)

StateSpec == Init /\ [][StateNext]_vars

\* The supplied version matches the stored one: both are known and name the
\* same number, NoStream and StreamExists standing for 0 (the snapshot of a
\* new repository is at StreamExists and is saved at Exact(0)).
Matches(stored, supplied) ==
    /\ stored.t # "Any" /\ supplied.t # "Any"
    /\ (IF stored.t = "Exact" THEN stored.v ELSE 0)
          = (IF supplied.t = "Exact" THEN supplied.v ELSE 0)

\* C21: a save succeeds only when the supplied version matches the stored
\* one; a successful save stores the state it was given, returns it and
\* advances the stored version by exactly one; a save that fails leaves the
\* stored state and version unchanged; reify returns the stored state and
\* version.
C21_SaveUnderVersionCheck ==
    [][\A h \in Handles :
          /\ \A ver \in Versions, s \in Ids :
                SaveCall(h, ver, Batch(s, NextTag(h), 1))
                => IF Matches(snapshot.version, ver)
                   THEN /\ ret'[h] = Ok(Batch(s, NextTag(h), 1), Any)
                        /\ snapshot'.data = Batch(s, NextTag(h), 1)
                        /\ snapshot'.version
                              = Exact(1 + (IF snapshot.version.t = "Exact"
                                           THEN snapshot.version.v ELSE 0))
                   ELSE /\ ret'[h].tag \in {"VersionConflict", "RepoErr"}
                        /\ snapshot' = snapshot
          /\ ReifyCall(h)
                => ret'[h] = Ok(snapshot.data, snapshot.version)]_vars

\* A save at Exact(0) on the new repository succeeded, a second save at a
\* version that is no longer current was refused, and reify returns the
\* saved state with Exact(1).
C21_Witness ==
    \E h, g \in Handles :
        /\ op[h] = "reify" /\ ret[h].tag = "Ok"
        /\ ret[h].version = Exact(1) /\ ret[h].events # <<>>
        /\ op[g] = "save" /\ ret[g].tag = "VersionConflict"
        /\ snapshot.version = Exact(1)

\* The steps of an execute_reify_decide of task h: its save succeeds, its
\* save meets a version conflict, it reifies again.
SaveSucceeds(h) ==
    /\ h \in live /\ op[h] = "execute_reify_decide" /\ pc[h] = "save"
    /\ pc'[h] = "idle" /\ ret'[h].tag = "Ok"
SaveConflicts(h) ==
    /\ h \in live /\ pc[h] = "save" /\ r[h] < retrys[h]
    /\ ReifyDecision(h).ok
    /\ ~Matches(snapshot.version, version[h])
ReifiesAgain(h) == h \in live /\ pc[h] = "reify" /\ pc'[h] = "save"

\* C22: with concurrent execute_reify_decide calls on clones of one state
\* repository no update is lost.  A successful save stores the snapshot it
\* replaces folded with the events of its call, so that the stored state is
\* always the fold of the events of the successful calls in the order of
\* their saves; a save that conflicts stores nothing and its task reifies
\* again and decides against the snapshot stored then; nothing but a
\* successful save changes the snapshot.
C22_NoLostUpdate ==
    [][/\ \A h \in Handles :
             /\ SaveSucceeds(h)
                   => /\ snapshot'.data
                            = Fold(snapshot.data, ReifyDecision(h).evts)
                      /\ ret'[h].events = snapshot'.data
             /\ SaveConflicts(h) /\ pc'[h] # "save"
                   => pc'[h] = "reify" /\ snapshot' = snapshot
             /\ ReifiesAgain(h)
                   => /\ state'[h] = snapshot.data
                      /\ version'[h] = snapshot.version
                      /\ snapshot' = snapshot
       /\ snapshot' # snapshot
             => \E h \in Handles :
                   \/ SaveSucceeds(h)
                   \/ Idle(h) /\ op'[h] = "save" /\ ret'[h].tag = "Ok"
      ]_vars

\* A task whose save conflicted has reified again and is about to decide
\* against the snapshot that the other task's execute_reify_decide stored.
C22_Witness ==
    \E h, g \in Handles :
        /\ pc[h] = "save" /\ r[h] = 2 /\ op[h] = "execute_reify_decide"
        /\ state[h] = snapshot.data /\ state[h] # <<>>
        /\ pc[g] = "idle" /\ op[g] = "execute_reify_decide"
        /\ ret[g] = Ok(snapshot.data, Any)

\* C23: every VersionConflict that append or save returns carries a
\* VersionDiff whose expected field is the version the caller supplied and
\* whose actual field is the repository's version at the time of the check:
\* the stream's position for append, the stored version for save.
C23_ConflictCarriesDiff ==
    [][\A h \in Handles :
          /\ AppendStep(h) /\ op[h] = "append"
             /\ ret'[h].tag = "VersionConflict"
                => /\ ret'[h].diff.expected = version[h]
                   /\ ret'[h].diff.actual = Exact(PositionOf(h, stream[h]))
          /\ \A ver \in Versions, s \in Ids :
                SaveCall(h, ver, Batch(s, NextTag(h), 1))
                /\ ret'[h].tag = "VersionConflict"
                => /\ ret'[h].diff.expected = ver
                   /\ ret'[h].diff.actual = snapshot.version]_vars

\* The step in which an append of task h returns Ok.
AppendReturnsOk(h) ==
    /\ h \in live /\ op[h] = "append" /\ pc[h] = "sub_stream"
    /\ pc'[h] = "idle" /\ ret'[h].tag = "Ok"

\* The last element of a non-empty list.
Last(evs) == evs[Len(evs)]

\* C24: when an append of a batch to a stream returns Ok with version v, a
\* load_from_version(v) of that stream made then returns a non-empty list
\* whose first element is the last event of the batch.
C24_LoadFromReturnedVersion ==
    [][\A h \in Handles :
          AppendReturnsOk(h) /\ new_evts[h] # <<>>
          => LET l == load_from_version(repo'[h], cells', ret'[h].version,
                                        StreamKey(stream[h]))
             IN  /\ l.tag = "Ok"
                 /\ l.events # <<>>
                 /\ Head(l.events) = Last(new_evts[h])]_vars

(***************************************************************************)
(* StateFromEventRepository (strategies/mod.rs 14-58)                      *)
(***************************************************************************)

\* What load(event_repository) (s = 0) and load_by_id(event_repository, s)
\* return on a repository with map m: the fold of the events of the read.
StateFrom(m, cs, s) ==
    LET l == load(m, cs, KeyOf(s))
    IN  IF l.tag = "Ok" THEN Ok(Fold(init, l.events), Any) ELSE l

\* A task calls load_by_id (s in Ids) or load (s = 0).
StateFromCall(h, s) ==
    /\ Idle(h)
    /\ ncalls < MaxCalls
    /\ ncalls' = ncalls + 1
    /\ op' = [op EXCEPT ![h] = "state_from"]
    /\ tag' = [tag EXCEPT ![h] = NextTag(h)]
    /\ ret' = [ret EXCEPT ![h] = StateFrom(repo[h], cells, s)]
    /\ cells' = CellsAfterLoad(repo[h], cells, Any, KeyOf(s))
    /\ UNCHANGED <<repo, live, pc, stream_state, cmd, retrys, ctx, r,
                   decider_evts, version, state, new_evts, stream, position>>
    /\ UNCHANGED <<overflow_checks, snapshot>>
    /\ UNCHANGED <<esdb, backends>>

FoldNext ==
    \/ \E h \in Handles : Clone(h)
    \/ \E h \in Handles, ss \in StreamStates, cm \in Cmds,
          rt \in RetrysChoices : ExecuteCall(h, ss, cm, rt)
    \/ \E h \in Handles : Attempt(h)
    \/ \E h \in Handles : AppendStream(h)
    \/ \E h \in Handles : AppendSubStream(h)
    \/ \E h \in Handles : CatchUp(h)
    \/ \E h \in Handles, s \in {0} \cup Ids : StateFromCall(h, s)

FoldSpec == Init /\ [][FoldNext]_vars

\* The step in which the append of an execute of task h commits its batch
\* new_evts[h] to the stream stream[h].
Commits(h) == AppendPassed(h) /\ op[h] = "execute"

\* C25: load_by_id returns init() folded over exactly the events of the
\* stream, in append order, and load the same fold over the category; and
\* load_by_id follows the commits of execute: when an execute commits a
\* batch to a stream, the state load_by_id finds for that stream, through
\* any handle of the repository, becomes the state it found before with the
\* batch applied, and no step but a commit to a stream changes what
\* load_by_id finds for it.
C25_StateIsFoldOfCommits ==
    [][/\ \A h \in Handles, s \in {0} \cup Ids :
             StateFromCall(h, s) /\ ret'[h].tag = "Ok"
             => ret'[h].events = Fold(init, StreamEvents(h, s))
       /\ \A h, g \in Handles :
             Commits(h) /\ g \in live
             => Fold(init, EventsIn(repo'[g], cells', stream[h]))
                   = Fold(Fold(init, EventsIn(repo[g], cells, stream[h])),
                          new_evts[h])
       /\ \A g \in Handles, s \in Ids :
             g \in live /\ (\A h \in Handles : ~(Commits(h) /\ stream[h] = s))
             => EventsIn(repo'[g], cells', s) = EventsIn(repo[g], cells, s)
      ]_vars

\* C26: the version a successful append returns is the stream's last
\* version after the append: when the append returns Ok and no other append
\* has moved the stream since its write, a load of the stream made then
\* returns Ok with the same version.
C26_ReturnedVersionIsLast ==
    [][\A h \in Handles :
          AppendReturnsOk(h) /\ PositionOf(h, stream[h]) = position[h]
          => LET l == load(repo'[h], cells', StreamKey(stream[h]))
             IN  l.tag = "Ok" /\ l.version = ret'[h].version]_vars

\* C27: all handles of one repository share a single map of streams: at
\* every moment every stream and the category hold the same events through
\* every handle, so what is appended through one clone is read through every
\* other, whenever the stream was created.
C27_ClonesShareStreams ==
    \A h, g \in Handles, s \in {0} \cup Ids :
        h \in live /\ g \in live => StreamEvents(h, s) = StreamEvents(g, s)

(***************************************************************************)
(* ESDBEventRepository::get_stream (repository/esdb/mod.rs 40-46).         *)
(* A String is the sequence of its characters.                             *)
(***************************************************************************)

\* The characters of the names: those of the prefix "$ce-" and of the
\* separator "-", which are also the ones a category or an id needs to
\* imitate them.
Chars == {"$", "c", "e", "-"}
\* The longest category name and the longest entity id.
MaxNameLen == 4
MaxIdLen == 1
Strings(n) == UNION {[1..k -> Chars] : k \in 0..n}

\* A get_stream that names the category as the in-memory repository does.
get_streamBare(category, id) ==
    IF id.some THEN category \o <<"-">> \o id.id ELSE category

\* format!("{}-{}", self.stream_name, id) and format!("$ce-{}", ..)
get_stream(category, id) ==
    IF id.some THEN category \o <<"-">> \o id.id
    ELSE <<"$", "c", "e", "-">> \o category

\* ESDBEventRepository::new(client, stream_name) and the id of a call.
NameInit ==
    /\ Start
    /\ stream_name \in Strings(MaxNameLen)
    /\ stream_id \in {None} \cup {Some(str) : str \in Strings(MaxIdLen)}
    /\ name = NoName
    /\ read = NoResult

\* One call of get_stream(stream_id).
GetStream ==
    /\ ~name.set
    /\ name' = [str |-> get_stream(stream_name, stream_id), set |-> TRUE]
    /\ UNCHANGED <<cells, repo, live, pc, op, stream_state, cmd, retrys, ctx,
                   r, decider_evts, version, state, new_evts, stream,
                   position, tag, ret, ncalls, overflow_checks, snapshot,
                   stream_name, stream_id, read, backends>>

NameNext == GetStream
NameSpec == NameInit /\ [][NameNext]_vars

\* C28: get_stream names an entity's stream "{category}-{id}" and the
\* category's stream "$ce-{category}", for every category and every id, the
\* empty ones included, and the name of the entity with the empty id is
\* never the name of the category.
C28_StreamNames ==
    name.set =>
        /\ stream_id.some =>
               /\ Len(name.str) = Len(stream_name) + 1 + Len(stream_id.id)
               /\ SubSeq(name.str, 1, Len(stream_name)) = stream_name
               /\ name.str[Len(stream_name) + 1] = "-"
               /\ SubSeq(name.str, Len(stream_name) + 2, Len(name.str))
                      = stream_id.id
        /\ ~stream_id.some =>
               /\ Len(name.str) = 4 + Len(stream_name)
               /\ SubSeq(name.str, 1, 4) = <<"$", "c", "e", "-">>
               /\ SubSeq(name.str, 5, Len(name.str)) = stream_name
        /\ stream_id \in {None, Some(<<>>)} =>
               name.str # get_stream(stream_name,
                                     IF stream_id.some THEN None
                                     ELSE Some(<<>>))

\* The category "$ce-" was asked for the stream of the entity with the empty
\* id.
C28_Witness ==
    /\ name.set
    /\ stream_id = Some(<<>>)
    /\ stream_name = <<"$", "c", "e", "-">>
    /\ name.str = <<"$", "c", "e", "-", "-">>

(***************************************************************************)
(* Reads of the repositories a server backs.  What the server answers is   *)
(* an input: ESDBEventRepository::load_from_version (repository/esdb/mod.rs*)
(* 88-133) and RedisStreamsEventRepository::load (repository/redis/        *)
(* versioned_event.rs 73-120) compute the events and the version from it.  *)
(***************************************************************************)

\* The most entries one answer of a server holds.
MaxRead == 2

\* ResolvedEvent: the revision of the original event, and whether the event
\* is there and deserializes to E.
ResolvedEvents ==
    [ok : BOOLEAN, revision : 0..MaxVersion, event : {Evt(1, 0, 1, 1)}]
\* How stream.next() ends: Ok(None), Err(ResourceNotFound), Err(e).
StreamEnds == {"None", "ResourceNotFound", "Err"}

\* The loop "for ev in evts" of the ESDB read: rv and pos.
RECURSIVE EsdbFold(_, _, _)
EsdbFold(evts, rv, pos) ==
    IF evts = <<>> THEN Ok(rv, pos)
    ELSE EsdbFold(Tail(evts),
                  IF Head(evts).ok THEN Append(rv, Head(evts).event) ELSE rv,
                  Exact(Head(evts).revision))

\* An ESDB read that starts from the version Any.
esdb_load_from_versionAny(connected, evts, end) ==
    IF ~connected THEN RepoErr("ESDBGeneral")
    ELSE IF end = "ResourceNotFound" THEN Ok(<<>>, NoStream)
    ELSE IF end = "Err" THEN RepoErr("ReadStream")
    ELSE EsdbFold(evts, <<>>, Any)

\* ESDBEventRepository::load_from_version, given whether read_stream
\* succeeded, the events stream.next() yielded and how it ended.
esdb_load_from_version(connected, evts, end) ==
    IF ~connected THEN RepoErr("ESDBGeneral")
    ELSE IF end = "ResourceNotFound" THEN Ok(<<>>, NoStream)
    ELSE IF end = "Err" THEN RepoErr("ReadStream")
    ELSE EsdbFold(evts, <<>>, StreamExists)

\* RedisVersion::try_from("{timestamp}-{version}")
RedisVersion(ts, n) == [version |-> n, timestamp |-> ts]
\* An entry of the Redis stream: its id, whether its data parses to the DTO,
\* the sub stream of the DTO, and whether the DTO converts to E.
RawEvents ==
    [id : {RedisVersion(ts, 0) : ts \in 1..MaxRead}, stream : Ids,
     event : {Evt(1, 0, 1, 1)}, parses : BOOLEAN, converts : BOOLEAN]

\* The loop "for raw_event in rv" of the Redis read; the id 0 is None, the
\* category.
RECURSIVE RedisFold(_, _, _, _)
RedisFold(rv, id, evts, redis_version) ==
    IF rv = <<>> THEN Ok(evts, redis_version)
    ELSE LET raw == Head(rv) IN
         IF ~raw.parses THEN RepoErr("ParseDTO")
         ELSE IF id # 0 /\ raw.stream # id
         THEN RedisFold(Tail(rv), id, evts, redis_version)
         ELSE IF ~raw.converts THEN RepoErr("FromDTO")
         ELSE RedisFold(Tail(rv), id, Append(evts, raw.event), Exact(raw.id))

\* RedisStreamsEventRepository::load, given whether the connection and the
\* range read succeeded and the entries the range read returned.
redis_load(connected, ranged, rv, id) ==
    IF ~connected THEN RepoErr("ConnectionError")
    ELSE IF ~ranged THEN RepoErr("ReadError")
    ELSE RedisFold(rv, id, <<>>, NoStream)

\* Sequences of up to MaxRead elements of S.
Answers(S) == UNION {[1..k -> S] : k \in 0..MaxRead}

\* A read of the ESDB repository.  The servers share nothing with the
\* in-memory repository, so that the order of their calls is of no
\* consequence: a read of a server is the first call of a behaviour.
EsdbLoad(connected, evts, end) ==
    /\ ncalls = 0
    /\ ncalls' = ncalls + 1
    /\ read' = esdb_load_from_version(connected, evts, end)
    /\ UNCHANGED <<cells, repo, live, pc, op, stream_state, cmd, retrys, ctx,
                   r, decider_evts, version, state, new_evts, stream,
                   position, tag, ret, overflow_checks, snapshot,
                   stream_name, stream_id, name, backends>>

\* A read of the Redis repository.
RedisLoad(connected, ranged, rv, id) ==
    /\ ncalls = 0
    /\ ncalls' = ncalls + 1
    /\ read' = redis_load(connected, ranged, rv, id)
    /\ UNCHANGED <<cells, repo, live, pc, op, stream_state, cmd, retrys, ctx,
                   r, decider_evts, version, state, new_evts, stream,
                   position, tag, ret, overflow_checks, snapshot,
                   stream_name, stream_id, name, backends>>

\* Reads of the three repositories, among appends to the in-memory one that
\* create its streams (empty batches included).
ReadNext ==
    \/ \E h \in Handles : Clone(h)
    \/ \E h \in Handles, ver \in Versions, s \in {0} \cup Ids :
           LoadCall(h, ver, s)
    \/ \E h \in Handles, s \in Ids, n \in 0..1 : AppendCall(h, Any, s, n)
    \/ \E h \in Handles : AppendStream(h)
    \/ \E h \in Handles : AppendSubStream(h)
    \/ \E connected \in BOOLEAN, evts \in Answers(ResolvedEvents),
          end \in StreamEnds : EsdbLoad(connected, evts, end)
    \/ \E connected \in BOOLEAN, ranged \in BOOLEAN, rv \in Answers(RawEvents),
          id \in {0} \cup Ids :
           RedisLoad(connected, ranged, rv, id)

ReadSpec == Init /\ [][ReadNext]_vars

\* C29: no read of an event repository returns the version Any: not a read
\* of the in-memory repository (load or load_from_version, of a stream or of
\* the category, existing or not), not a read of the ESDB repository and not
\* a read of the Redis repository.
C29_ReadsNeverReturnAny ==
    [][/\ \A h \in Handles :
              ret'[h] # ret[h] /\ op'[h] = "load" /\ ret'[h].tag = "Ok"
                  => ret'[h].version.t # "Any"
       /\ read'.tag = "Ok" => read'.version.t # "Any"]_vars

\* A read of an existing, empty ESDB stream returned, and then a read of a
\* stream the in-memory repository does not hold.
C29_Witness ==
    /\ read.tag = "Ok"
    /\ read.version.t = "StreamExists"
    /\ \E h \in Handles :
           /\ h \in live /\ op[h] = "load" /\ ret[h].tag = "Ok"
           /\ ret[h].events = <<>>
           /\ ret[h].version.t = "Exact"

(***************************************************************************)
(* execute_reify_decide over a state repository whose reify and save can   *)
(* fail with an error that is no version conflict (strategies/mod.rs       *)
(* 180-183, 195-197, 200-203).  A repository that fails stores nothing.    *)
(***************************************************************************)

\* Lines 180-183: the first reify fails.
ExecuteReifyFails(h, cm, rt, e) ==
    /\ Idle(h)
    /\ ncalls < MaxCalls
    /\ ncalls' = ncalls + 1
    /\ op' = [op EXCEPT ![h] = "execute_reify_decide"]
    /\ tag' = [tag EXCEPT ![h] = NextTag(h)]
    /\ Return(h, RepositoryErr(e))
    /\ UNCHANGED <<cells, repo, live>>
    /\ UNCHANGED <<overflow_checks, snapshot>>
    /\ UNCHANGED <<esdb, backends>>

\* Lines 194-197: save is called and fails.
SaveFails(h, e) ==
    /\ h \in live
    /\ pc[h] = "save"
    /\ r[h] < retrys[h]
    /\ ReifyDecision(h).ok
    /\ Return(h, RepositoryErr(e))
    /\ UNCHANGED <<cells, repo, live, op, tag, ncalls>>
    /\ UNCHANGED <<overflow_checks, snapshot>>
    /\ UNCHANGED <<esdb, backends>>

\* Lines 200-203: the reify after a version conflict fails.
ReReifyFails(h, e) ==
    /\ h \in live
    /\ pc[h] = "reify"
    /\ Return(h, RepositoryErr(e))
    /\ UNCHANGED <<cells, repo, live, op, tag, ncalls>>
    /\ UNCHANGED <<overflow_checks, snapshot>>
    /\ UNCHANGED <<esdb, backends>>

StateFailNext ==
    \/ \E h \in Handles : Clone(h)
    \/ \E h \in Handles, ver \in Versions, s \in Ids :
           SaveCall(h, ver, Batch(s, NextTag(h), 1))
    \/ \E h \in Handles : ReifyCall(h)
    \/ \E h \in Handles, cm \in Cmds, rt \in RetrysChoices :
           ExecuteReifyCall(h, cm, rt)
    \/ \E h \in Handles : SaveAttempt(h)
    \/ \E h \in Handles : ReReify(h)
    \/ \E h \in Handles, cm \in Cmds, rt \in RetrysChoices,
          e \in RepoErrors : ExecuteReifyFails(h, cm, rt, e)
    \/ \E h \in Handles, e \in RepoErrors : SaveFails(h, e)
    \/ \E h \in Handles, e \in RepoErrors : ReReifyFails(h, e)

StateFailSpec == Init /\ [][StateFailNext]_vars

\* The task h ends its execute_reify_decide in this step, with a result of
\* the kind t.
EndsWith(h, t) ==
    /\ h \in live
    /\ op'[h] = "execute_reify_decide"
    /\ pc[h] # "idle" \/ tag'[h] # tag[h]
    /\ pc'[h] = "idle"
    /\ ret'[h].tag = t

\* C30: in execute_reify_decide, when decide rejects the command the call
\* ends in that step with DecideErr, having neither saved nor retried, and
\* DecideErr is returned for no other reason; a failure of reify or of save
\* that is no version conflict ends the call in that step with RepositoryErr
\* carrying the repository's error; in both cases the stored snapshot and
\* its version are what they were.
C30_RejectionAndFailureEndTheCall ==
    [][\A h \in Handles :
          /\ /\ h \in live /\ pc[h] = "save" /\ pc'[h] # "save"
             /\ r[h] < retrys[h]
             /\ ~decide(ctx[h], state[h], cmd[h], tag[h]).ok
             => /\ EndsWith(h, "DecideErr")
                /\ snapshot' = snapshot
          /\ EndsWith(h, "DecideErr")
             => /\ pc[h] = "save"
                /\ ~decide(ctx[h], state[h], cmd[h], tag[h]).ok
                /\ snapshot' = snapshot
          /\ EndsWith(h, "RepositoryErr")
             => /\ ErrorOf(ret'[h]) \in RepoErrors
                /\ snapshot' = snapshot
          /\ /\ h \in live /\ pc[h] = "save" /\ pc'[h] = "reify"
             => save(snapshot, version[h], NewState(h)).res.tag
                    = "VersionConflict"]_vars

\* A command was saved, a second one was rejected and a third call met a
\* failing repository.
C30_Witness ==
    \E h, g \in Handles :
        /\ h \in live /\ g \in live
        /\ op[h] = "execute_reify_decide" /\ pc[h] = "idle"
        /\ ret[h].tag = "DecideErr"
        /\ op[g] = "execute_reify_decide" /\ pc[g] = "idle"
        /\ ret[g].tag = "RepositoryErr"
        /\ snapshot.version = Exact(1)

(***************************************************************************)
(* execute over a repository whose reads report an error: a version        *)
(* conflict or another failure (strategies/mod.rs 105-108, 140-143).  What *)
(* the read reported is kept in read.                                      *)
(***************************************************************************)

\* What a failing read reports.
LoadErrors ==
    {RepoErr(e) : e \in RepoErrors}
        \cup {VersionConflict(VersionDiff(Exact(0), Exact(1)))}

\* Lines 105-108: the initial load of Existing(sid) reports err.
ExecuteLoadReports(h, ss, cm, rt, err) ==
    /\ Idle(h)
    /\ ncalls < MaxCalls
    /\ ss.t = "Existing"
    /\ ncalls' = ncalls + 1
    /\ op' = [op EXCEPT ![h] = "execute"]
    /\ tag' = [tag EXCEPT ![h] = NextTag(h)]
    /\ read' = err
    /\ Return(h, to_lda_error(err))
    /\ UNCHANGED <<cells, repo, live>>
    /\ UNCHANGED <<overflow_checks, snapshot>>
    /\ UNCHANGED <<stream_name, stream_id, name, backends>>

\* Lines 140-143: the catch-up load_from_version reports err.
CatchUpReports(h, err) ==
    /\ h \in live
    /\ pc[h] = "catchup"
    /\ read' = err
    /\ Return(h, to_lda_error(err))
    /\ UNCHANGED <<cells, repo, live, op, tag, ncalls>>
    /\ UNCHANGED <<overflow_checks, snapshot>>
    /\ UNCHANGED <<stream_name, stream_id, name, backends>>

\* The commands of VersionSpec: those of FailSpec and a user whose batch has
\* two events, after which a New call meets a conflict in append.
VersionCmds == FailCmds \cup {AddUser(2)}

\* The retry budgets of VersionSpec: one attempt, and two.
VersionRetrys == {MaxRetrys - 1, MaxRetrys}

VersionNext ==
    \/ \E h \in Handles : Clone(h)
    \/ \E h \in Handles, ss \in StreamStates, cm \in VersionCmds,
          rt \in VersionRetrys : ExecuteCall(h, ss, cm, rt)
    \/ \E h \in Handles : Attempt(h)
    \/ \E h \in Handles : AppendStream(h)
    \/ \E h \in Handles : AppendSubStream(h)
    \/ \E h \in Handles : CatchUp(h)
    \/ \E h \in Handles, ss \in StreamStates, cm \in VersionCmds,
          rt \in VersionRetrys, err \in LoadErrors :
              ExecuteLoadReports(h, ss, cm, rt, err)
    \/ \E h \in Handles, err \in LoadErrors : CatchUpReports(h, err)

VersionSpec == Init /\ [][VersionNext]_vars

\* C31: execute returns VersionError only in the step in which its initial
\* load or its catch-up load_from_version reported a version conflict; an
\* append that reports a version conflict never ends the call with
\* VersionError: the call goes on to the catch-up read and to the next
\* attempt, and ends with OccMaxRetries once no attempt is left.
C31_VersionErrorOnlyFromReads ==
    [][\A h \in Handles :
          /\ /\ ret'[h].tag = "VersionError"
             /\ ReturnStep(h) \/ tag'[h] # tag[h]
             => /\ pc[h] \in {"idle", "catchup"}
                /\ read'.tag = "VersionConflict"
          /\ AppendStep(h) /\ op[h] = "execute"
             => /\ ret'[h].tag # "VersionError"
                /\ pc'[h] = "idle" => ret'[h].tag = "Panic"
          /\ h \in live /\ pc[h] = "catchup" /\ pc'[h] = "attempt"
             => r'[h] = r[h] + 1
          /\ /\ h \in live /\ pc[h] = "attempt" /\ pc'[h] # "attempt"
             /\ ~(r[h] < retrys[h])
             => pc'[h] = "idle" /\ ret'[h] = OccMaxRetries]_vars

\* One call ended with VersionError after its read reported a conflict, and
\* another call, whose append met a conflict, ended with OccMaxRetries.
C31_Witness ==
    \E h, g \in Handles :
        /\ h \in live /\ g \in live
        /\ op[h] = "execute" /\ pc[h] = "idle" /\ ret[h].tag = "VersionError"
        /\ read.tag = "VersionConflict"
        /\ op[g] = "execute" /\ pc[g] = "idle" /\ ret[g] = OccMaxRetries

\* The task h, called with StreamState::New, chooses the stream of an attempt
\* that is not its first.
NewRetryStep(h) ==
    /\ h \in live
    /\ op[h] = "execute"
    /\ stream_state[h] = New
    /\ pc[h] = "attempt" /\ pc'[h] = "append"
    /\ r[h] > 1

\* C32: within one call of execute with StreamState::New every attempt
\* appends to the stream of the attempt before it, and the history the
\* attempt decides on (with the version it expects) was read from the stream
\* it appends to, also when decide draws a new entity id from ctx on each
\* attempt.
C32_NewAttemptsKeepStream ==
    [][\A h \in Handles :
          NewRetryStep(h)
              => /\ stream'[h] = stream[h]
                 /\ \A i \in 1..Len(decider_evts[h]) :
                        StreamIdFrom(decider_evts[h][i]) = stream'[h]]_vars

\* The events of the list evs that belong to the stream s, in their order.
RECURSIVE OfStream(_, _)
OfStream(evs, s) ==
    IF evs = <<>> THEN <<>>
    ELSE IF StreamIdFrom(Head(evs)) = s
    THEN <<Head(evs)>> \o OfStream(Tail(evs), s)
    ELSE OfStream(Tail(evs), s)

\* The list a is the beginning of the list b.
IsPrefix(a, b) == Len(a) <= Len(b) /\ a = SubSeq(b, 1, Len(a))

\* Every handle finds the same cell under the key of s (0: the category).
SharedByAll(s) ==
    \A h, g \in Handles :
        h \in live /\ g \in live => repo[h][KeyOf(s)] = repo[g][KeyOf(s)]

\* C33: under concurrent appends through clones, what a handle reads of the
\* category, restricted to the events of one stream, is the beginning of
\* that stream's own sequence: the category never orders two events of a
\* stream otherwise than the stream does and never shows an event of a
\* stream without those before it in the stream.  Stated for a stream and a
\* category that all clones hold.
C33_CategoryFollowsStreams ==
    \A h \in Handles, s \in Ids :
        h \in live /\ SharedByAll(s) /\ SharedByAll(0)
            => IsPrefix(OfStream(StreamEvents(h, 0), s), StreamEvents(h, s))

\* C34: in the in-memory repository the version a read reports for a stream
\* determines how many events the stream holds: two streams (or one stream
\* at two handles) that hold different numbers of events, none and one in
\* particular, never report the same version.
C34_VersionDeterminesLength ==
    \A h, g \in Handles, s, s2 \in Ids :
        LET l == load(repo[h], cells, StreamKey(s))
            l2 == load(repo[g], cells, StreamKey(s2))
        IN  /\ h \in live /\ g \in live
            /\ l.tag = "Ok" /\ l2.tag = "Ok"
            /\ l.version = l2.version
            => Len(StreamEvents(h, s)) = Len(StreamEvents(g, s2))

(***************************************************************************)
(* TermSpec: calls of execute and of execute_reify_decide by tasks that    *)
(* are scheduled until they return.                                        *)
(***************************************************************************)

\* The commands and the streams of the calls of TermSpec.
TermCmds == {AddUser(1), AddGuitar(1), Noop}
TermStreams == {New, Existing(1)}

TermNext ==
    \/ \E h \in Handles : Clone(h)
    \/ \E h \in Handles, ss \in TermStreams, cm \in TermCmds,
          rt \in RetrysChoices : ExecuteCall(h, ss, cm, rt)
    \/ \E h \in Handles : Attempt(h)
    \/ \E h \in Handles : AppendStream(h)
    \/ \E h \in Handles : AppendSubStream(h)
    \/ \E h \in Handles : CatchUp(h)
    \/ \E h \in Handles, cm \in TermCmds, rt \in RetrysChoices :
           ExecuteReifyCall(h, cm, rt)
    \/ \E h \in Handles : SaveAttempt(h)
    \/ \E h \in Handles : ReReify(h)

\* Every task that has started a call is scheduled until the call returns.
TermFairness ==
    \A h \in Handles :
        /\ WF_vars(Attempt(h))
        /\ WF_vars(AppendStream(h))
        /\ WF_vars(AppendSubStream(h))
        /\ WF_vars(CatchUp(h))
        /\ WF_vars(SaveAttempt(h))
        /\ WF_vars(ReReify(h))

TermSpec == Init /\ [][TermNext]_vars /\ TermFairness

\* What a call of execute or of execute_reify_decide may return.
Returns == {"Ok", "DecideErr", "RepositoryErr", "VersionError", "OccMaxRetries"}

\* The task h calls save in this step.
SaveStep(h) ==
    /\ h \in live
    /\ pc[h] = "save" /\ pc'[h] # "save"
    /\ r[h] < retrys[h]
    /\ ReifyDecision(h).ok

\* C35: every call of execute and of execute_reify_decide ends, whatever the
\* other writers do: it returns Ok, DecideErr, RepositoryErr, VersionError
\* or OccMaxRetries, and it makes fewer attempts than its retry bound.
C35_CallsTerminate ==
    /\ [][\A h \in Handles :
             /\ ReturnStep(h) => ret'[h].tag \in Returns
             /\ AttemptStep(h) \/ SaveStep(h)
                => AttemptsMade(h) + 1 < retrys[h]
         ]_vars
    /\ \A h \in Handles : (pc[h] # "idle") ~> (pc[h] = "idle")

\* ---------------------------------------------------------------------
\* The backoff of execute (strategies/mod.rs, line 139).

\* The largest max_retries a caller supplies here.
MaxSleepRetrys == 45

\* 100000000 as a u32: 1525 * 65536 + 57600.
NanosHi == 1525
NanosLo == 57600

\* 100000000 * r in u32: the product overflows when its upper half does
\* not fit 16 bits; a build with overflow checks panics, one without
\* them wraps.
backoff(n, checks) ==
    LET low == NanosLo * n
        high == NanosHi * n + low \div 65536
    IN  U32(high % 65536, low % 65536, checks /\ high >= 65536)

\* execute(.., Some(rt)) on a stream under contention: the first append
\* has conflicted, if the loop has an iteration at all.
SleepCall(h, rt) ==
    /\ Idle(h)
    /\ ncalls < MaxCalls
    /\ ncalls' = ncalls + 1
    /\ op' = [op EXCEPT ![h] = "execute"]
    /\ tag' = [tag EXCEPT ![h] = NextTag(h)]
    /\ IF 1 < rt
       THEN /\ retrys' = [retrys EXCEPT ![h] = rt]
            /\ pc' = [pc EXCEPT ![h] = "sleep"]
            /\ ret' = [ret EXCEPT ![h] = NoResult]
            /\ UNCHANGED <<stream_state, cmd, ctx, r, decider_evts, version,
                           state, new_evts, stream, position>>
       ELSE Return(h, OccMaxRetries)
    /\ UNCHANGED <<cells, repo, live>>
    /\ UNCHANGED <<overflow_checks, snapshot>>
    /\ UNCHANGED <<esdb, backends>>

\* The conflict branch of iteration r: sleep, and the next attempt
\* conflicts again, until the loop ends.
Backoff(h) ==
    /\ h \in live
    /\ pc[h] = "sleep"
    /\ slept' = backoff(r[h], overflow_checks)
    /\ IF slept'.panic
       THEN Return(h, Panic)
       ELSE IF r[h] + 1 < retrys[h]
            THEN /\ r' = [r EXCEPT ![h] = r[h] + 1]
                 /\ UNCHANGED <<pc, ret, args, decider_evts, version, state,
                                new_evts, stream, position>>
            ELSE Return(h, OccMaxRetries)
    /\ UNCHANGED <<cells, repo, live, op, tag, ncalls>>
    /\ UNCHANGED <<overflow_checks, snapshot>>
    /\ UNCHANGED <<esdb, esdb_streams, redis_stream, redis_json>>

SleepNext ==
    \E h \in Handles :
        \/ \E rt \in 1..MaxSleepRetrys : SleepCall(h, rt)
        \/ Backoff(h)

SleepSpec == Init /\ [][SleepNext]_vars

\* C36: the sleep after the r-th conflicting attempt is 100 ms * r,
\* computed without a panic and without leaving the range of a u32, for
\* every r below the caller's max_retries (in units of 256 ns:
\* 100000000 = 390625 * 256).
C36_BackoffInRange ==
    [][\A h \in Handles :
          h \in live /\ pc[h] = "sleep" /\ r[h] < retrys[h]
          /\ (r'[h] # r[h] \/ pc'[h] # pc[h])
          => /\ ~slept'.panic
             /\ slept'.lo % 256 = 0
             /\ slept'.hi * 256 + slept'.lo \div 256 = 390625 * r[h]]_vars

\* ---------------------------------------------------------------------
\* The ESDB repository over the server's streams (esdb/mod.rs).  A stream
\* of the server exists when it holds an event; the revision of an event
\* is its index from 0.

\* ESDBEventRepository::version_to_expected_revision: the ExpectedRevision
\* of the client has the shapes of a version.
version_to_expected_revision(ver) ==
    IF ver.t = "Exact" THEN Exact(ver.v) ELSE Any

\* ESDBEventRepository::current_revision_to_version of the CurrentRevision
\* of a stream.
current_revision_to_version(evts) ==
    IF evts = <<>> THEN NoStream ELSE Exact(Len(evts) - 1)

\* The server's test of an expected revision against a stream.
RevisionHolds(expected, evts) ==
    IF expected.t = "Any" THEN TRUE
    ELSE IF expected.t = "NoStream" THEN evts = <<>>
    ELSE IF expected.t = "StreamExists" THEN evts # <<>>
    ELSE evts # <<>> /\ expected.v = Len(evts) - 1

\* What can fail in an append besides the expected revision.
EsdbFaults == {"none", "SerializeEventDataPayload", "WriteStream"}

\* ESDBEventRepository::append
esdb_append(streams, ver, s, events, fault) ==
    IF fault = "SerializeEventDataPayload" THEN RepoErr(fault)
    ELSE IF ~RevisionHolds(version_to_expected_revision(ver), streams[s])
    THEN VersionConflict(
             VersionDiff(ver, current_revision_to_version(streams[s])))
    ELSE IF fault = "WriteStream" THEN RepoErr(fault)
    ELSE Ok(events, Exact(Len(streams[s]) + Len(events) - 1))

\* The server's streams after that append.
EsdbAfterAppend(streams, ver, s, events, fault) ==
    IF esdb_append(streams, ver, s, events, fault).tag = "Ok"
    THEN [streams EXCEPT ![s] = @ \o events]
    ELSE streams

\* The ResolvedEvents a read of a stream yields from a revision on.
EsdbEvents(evts, from) ==
    [i \in 1..(Len(evts) - from) |->
        [ok |-> TRUE, revision |-> from + i - 1, event |-> evts[from + i]]]

\* ESDBEventRepository::load_from_version of a stream of the server.
esdb_read(streams, ver, s) ==
    IF streams[s] = <<>>
    THEN esdb_load_from_version(TRUE, <<>>, "ResourceNotFound")
    ELSE esdb_load_from_version(
             TRUE,
             EsdbEvents(streams[s], IF ver.t = "Exact" THEN ver.v ELSE 0),
             "None")

\* A client calls append of the ESDB repository.
EsdbAppendCall(h, ver, s, n) ==
    /\ Idle(h)
    /\ ncalls < MaxCalls
    /\ ncalls' = ncalls + 1
    /\ op' = [op EXCEPT ![h] = "append"]
    /\ pc' = [pc EXCEPT ![h] = "esdb_append"]
    /\ tag' = [tag EXCEPT ![h] = NextTag(h)]
    /\ version' = [version EXCEPT ![h] = ver]
    /\ stream' = [stream EXCEPT ![h] = s]
    /\ new_evts' = [new_evts EXCEPT ![h] = Batch(s, NextTag(h), n)]
    /\ ret' = [ret EXCEPT ![h] = NoResult]
    /\ UNCHANGED <<cells, repo, live, stream_state, cmd, retrys, ctx, r,
                   decider_evts, state, position>>
    /\ UNCHANGED <<overflow_checks, snapshot>>
    /\ UNCHANGED <<esdb, backends>>

\* The append reaches the server and returns.
EsdbAppend(h, fault) ==
    /\ h \in live
    /\ pc[h] = "esdb_append"
    /\ esdb_streams' = EsdbAfterAppend(esdb_streams, version[h], stream[h],
                                       new_evts[h], fault)
    /\ Return(h, esdb_append(esdb_streams, version[h], stream[h],
                             new_evts[h], fault))
    /\ UNCHANGED <<cells, repo, live, op, tag, ncalls>>
    /\ UNCHANGED <<overflow_checks, snapshot>>
    /\ UNCHANGED <<esdb, slept, redis_stream, redis_json>>

\* execute over the ESDB repository: the initial load.
EsdbExecuteCall(h, ss, cm, rt) ==
    /\ Idle(h)
    /\ ncalls < MaxCalls
    /\ ncalls' = ncalls + 1
    /\ op' = [op EXCEPT ![h] = "execute"]
    /\ tag' = [tag EXCEPT ![h] = NextTag(h)]
    /\ LET l == IF ss.t = "New" THEN Ok(<<>>, NoStream)
                ELSE esdb_read(esdb_streams, Any, ss.id)
       IN  /\ stream_state' = [stream_state EXCEPT ![h] = ss]
           /\ ctx' = [ctx EXCEPT ![h] = 1]
           /\ cmd' = [cmd EXCEPT ![h] = cm]
           /\ retrys' = [retrys EXCEPT ![h] = rt]
           /\ decider_evts' = [decider_evts EXCEPT ![h] = l.events]
           /\ version' = [version EXCEPT ![h] = l.version]
           /\ pc' = [pc EXCEPT ![h] = "esdb_attempt"]
           /\ ret' = [ret EXCEPT ![h] = NoResult]
           /\ UNCHANGED <<r, state, new_evts, stream, position>>
    /\ UNCHANGED <<cells, repo, live>>
    /\ UNCHANGED <<overflow_checks, snapshot>>
    /\ UNCHANGED <<esdb, backends>>

\* One iteration of execute's loop up to the answer of the server's
\* append.
EsdbAttempt(h, fault) ==
    /\ h \in live
    /\ pc[h] = "esdb_attempt"
    /\ cmd[h].op = "AddUser" /\ r[h] < retrys[h] => ctx[h] <= NumIds
    /\ IF ~(r[h] < retrys[h])
       THEN /\ Return(h, OccMaxRetries)
            /\ UNCHANGED esdb_streams
       ELSE LET d == decide(ctx[h], AttemptState(h), cmd[h], tag[h])
                s == IF stream_state[h].t = "New" THEN StreamIdFrom(d.evts[1])
                     ELSE stream_state[h].id
                a == esdb_append(esdb_streams, version[h], s, d.evts, fault)
            IN  IF ~d.ok
                THEN /\ Return(h, DecideErr)
                     /\ UNCHANGED esdb_streams
                ELSE IF stream_state[h].t = "New" /\ d.evts = <<>>
                THEN /\ Return(h, Ok(<<>>, Any))
                     /\ UNCHANGED esdb_streams
                ELSE /\ esdb_streams' = EsdbAfterAppend(esdb_streams, version[h],
                                                        s, d.evts, fault)
                     /\ IF a.tag = "Ok" THEN Return(h, a)
                        ELSE IF a.tag = "RepoErr" THEN Return(h, to_lda_error(a))
                        ELSE /\ ctx' = [ctx EXCEPT ![h] = d.ctx]
                             /\ state' = [state EXCEPT ![h] = AttemptState(h)]
                             /\ new_evts' = [new_evts EXCEPT ![h] = d.evts]
                             /\ stream' = [stream EXCEPT ![h] = s]
                             /\ pc' = [pc EXCEPT ![h] = "esdb_catchup"]
                             /\ UNCHANGED <<ret, stream_state, cmd, retrys, r,
                                            decider_evts, version, position>>
    /\ UNCHANGED <<cells, repo, live, op, tag, ncalls>>
    /\ UNCHANGED <<overflow_checks, snapshot>>
    /\ UNCHANGED <<esdb, slept, redis_stream, redis_json>>

\* The conflict branch: load_from_version of the ESDB repository.
EsdbCatchUp(h) ==
    /\ h \in live
    /\ pc[h] = "esdb_catchup"
    /\ LET l == esdb_read(esdb_streams, version[h], stream[h])
       IN  /\ version' = [version EXCEPT ![h] = l.version]
           /\ decider_evts' = [decider_evts EXCEPT
                                 ![h] = decider_evts[h] \o l.events]
           /\ r' = [r EXCEPT ![h] = r[h] + 1]
           /\ pc' = [pc EXCEPT ![h] = "esdb_attempt"]
           /\ UNCHANGED <<ret, args, state, new_evts, stream, position>>
    /\ UNCHANGED <<cells, repo, live, op, tag, ncalls>>
    /\ UNCHANGED <<overflow_checks, snapshot>>
    /\ UNCHANGED <<esdb, backends>>

\* The commands that emit events.
EsdbCmds == {AddUser(1)} \cup {AddGuitar(i) : i \in Ids}

EsdbNext ==
    \/ \E h \in Handles : Clone(h)
    \/ \E h \in Handles, ver \in Versions, s \in Ids, n \in 1..2 :
           EsdbAppendCall(h, ver, s, n)
    \/ \E h \in Handles, fault \in EsdbFaults : EsdbAppend(h, fault)
    \/ \E h \in Handles, ss \in StreamStates, cm \in EsdbCmds,
          rt \in FailRetrys :
           EsdbExecuteCall(h, ss, cm, rt)
    \/ \E h \in Handles, fault \in EsdbFaults : EsdbAttempt(h, fault)
    \/ \E h \in Handles : EsdbCatchUp(h)

EsdbSpec == Init /\ [][EsdbNext]_vars

\* An append of the ESDB repository by h answers in this step.
EsdbAppendStep(h) ==
    /\ h \in live
    /\ pc[h] = "esdb_append"
    /\ pc'[h] = "idle"

\* The first attempt of an execute with New writes to the server.
EsdbFirstWrite(h) ==
    /\ h \in live
    /\ pc[h] = "esdb_attempt"
    /\ stream_state[h] = New
    /\ r[h] = 1
    /\ esdb_streams' # esdb_streams

\* C37: an ESDB append guarded by NoStream on a stream that exists, and
\* one guarded by StreamExists on a stream that does not, is rejected and
\* writes nothing; and the first write of an execute with New does not
\* land on a stream that held events already.
C37_ExistenceGuards ==
    [][\A h \in Handles :
          /\ /\ EsdbAppendStep(h)
             /\ \/ version[h] = NoStream /\ esdb_streams[stream[h]] # <<>>
                \/ version[h] = StreamExists /\ esdb_streams[stream[h]] = <<>>
             => /\ ret'[h].tag \in {"VersionConflict", "RepoErr"}
                /\ esdb_streams' = esdb_streams
          /\ EsdbFirstWrite(h)
             => \A s \in Ids :
                    esdb_streams'[s] # esdb_streams[s] => esdb_streams[s] = <<>>]_vars

\* ---------------------------------------------------------------------
\* The Redis Streams repository over the server's one stream
\* (redis/versioned_event.rs; redis/mod.rs has the same append).  The id
\* of the i-th entry is "i-0".

\* The ids "-" and "+" of a range.
Minus == 0
Plus == 65535

\* The entry that publish adds for an event as the i-th of the stream.
RedisEntry(i, e) ==
    [id |-> RedisVersion(i, 0), stream |-> e.id, event |-> e,
     parses |-> TRUE, converts |-> TRUE]

\* StreamModel::range(start, end): the entries from start to end.
xrange(entries, start, end) ==
    SelectSeq(entries,
              LAMBDA x : start <= x.id.timestamp /\ x.id.timestamp <= end)

\* RedisStreamsEventRepository::load_from_version on the server's stream.
redis_load_from_version(entries, ver, id) ==
    RedisFold(xrange(entries,
                     IF ver.t = "Exact" THEN ver.v.timestamp ELSE Minus,
                     Plus),
              id, <<>>, NoStream)

\* The match on the expected version at the head of append: the conflict
\* it returns, or NoResult when the append goes on.
redis_guard(entries, ver) ==
    IF ver.t = "Any" THEN NoResult
    ELSE IF ver.t = "Exact"
    THEN LET res == xrange(entries, ver.v.timestamp, Minus)
         IN  IF Len(res) > 1
             THEN VersionConflict(VersionDiff(ver, Exact(res[Len(res)].id)))
             ELSE NoResult
    ELSE IF ver.t = "NoStream"
    THEN IF Len(entries) > 0
         THEN VersionConflict(VersionDiff(ver, StreamExists))
         ELSE NoResult
    ELSE IF Len(entries) = 0
         THEN VersionConflict(VersionDiff(ver, NoStream))
         ELSE NoResult

\* The versions a caller of the Redis repository passes.
RedisVersions ==
    {Any, NoStream, StreamExists}
        \cup {Exact(RedisVersion(i, 0)) : i \in 1..MaxRead}

\* An entity no execute draws from its context.
OtherEntity == NumIds + 1

\* A client calls append of the Redis repository.
RedisAppendCall(h, ver, s, n) ==
    /\ Idle(h)
    /\ ncalls < MaxCalls
    /\ ncalls' = ncalls + 1
    /\ op' = [op EXCEPT ![h] = "append"]
    /\ pc' = [pc EXCEPT ![h] = "redis_guard"]
    /\ tag' = [tag EXCEPT ![h] = NextTag(h)]
    /\ version' = [version EXCEPT ![h] = ver]
    /\ stream' = [stream EXCEPT ![h] = s]
    /\ new_evts' = [new_evts EXCEPT ![h] = Batch(s, NextTag(h), n)]
    /\ ret' = [ret EXCEPT ![h] = NoResult]
    /\ UNCHANGED <<cells, repo, live, stream_state, cmd, retrys, ctx, r,
                   decider_evts, state, position>>
    /\ UNCHANGED <<overflow_checks, snapshot>>
    /\ UNCHANGED <<esdb, backends>>

\* append returns result to its caller: to the client, or into the match
\* of execute's loop.
RedisAnswer(h, result) ==
    IF op[h] = "execute" /\ result.tag = "VersionConflict"
    THEN /\ pc' = [pc EXCEPT ![h] = "redis_catchup"]
         /\ UNCHANGED <<ret, args, r, decider_evts, version, state, new_evts,
                        stream, position>>
    ELSE IF op[h] = "execute" /\ result.tag = "RepoErr"
    THEN Return(h, to_lda_error(result))
    ELSE Return(h, result)

\* The head of append: the connection, and the commands that test the
\* expected version; then the local version of the loop is NoStream and
\* no event is published yet.
RedisGuard(h, fails) ==
    /\ h \in live
    /\ pc[h] = "redis_guard"
    /\ IF fails
       THEN RedisAnswer(h, RepoErr("ConnectionError"))
       ELSE IF redis_guard(redis_stream, version[h]).tag = "VersionConflict"
       THEN RedisAnswer(h, redis_guard(redis_stream, version[h]))
       ELSE /\ pc' = [pc EXCEPT ![h] = "redis_publish"]
            /\ version' = [version EXCEPT ![h] = NoStream]
            /\ position' = [position EXCEPT ![h] = 0]
            /\ UNCHANGED <<ret, args, r, decider_evts, state, new_evts,
                           stream>>
    /\ UNCHANGED <<cells, repo, live, op, tag, ncalls>>
    /\ UNCHANGED <<overflow_checks, snapshot>>
    /\ UNCHANGED <<esdb, backends>>

\* One iteration of "for e in evts": a publish of the next event, or the
\* end of the loop.
RedisPublish(h, fails) ==
    /\ h \in live
    /\ pc[h] = "redis_publish"
    /\ IF position[h] = Len(new_evts[h])
       THEN /\ RedisAnswer(h, Ok(new_evts[h], version[h]))
            /\ UNCHANGED redis_stream
       ELSE IF fails
       THEN /\ RedisAnswer(h, RepoErr("ConnectionError"))
            /\ UNCHANGED redis_stream
       ELSE /\ redis_stream' =
                   Append(redis_stream,
                          RedisEntry(Len(redis_stream) + 1,
                                     new_evts[h][position[h] + 1]))
            /\ version' = [version EXCEPT
                             ![h] = Exact(RedisVersion(Len(redis_stream) + 1, 0))]
            /\ position' = [position EXCEPT ![h] = position[h] + 1]
            /\ UNCHANGED <<pc, ret, args, r, decider_evts, state, new_evts,
                           stream>>
    /\ UNCHANGED <<cells, repo, live, op, tag, ncalls>>
    /\ UNCHANGED <<overflow_checks, snapshot>>
    /\ UNCHANGED <<esdb, slept, esdb_streams, redis_json>>

RedisNext ==
    \/ \E h \in Handles : Clone(h)
    \/ \E h \in Handles, ver \in RedisVersions, s \in Ids, n \in 0..2 :
           RedisAppendCall(h, ver, s, n)
    \/ \E h \in Handles, fails \in BOOLEAN : RedisGuard(h, fails)
    \/ \E h \in Handles, fails \in BOOLEAN : RedisPublish(h, fails)

RedisSpec == Init /\ [][RedisNext]_vars

\* The indices of the entries that the call with tag t published.
EntriesOf(t) == {i \in 1..Len(redis_stream) : redis_stream[i].event.tag = t}

\* An append of h that tests its expected version in this step.
RedisGuardStep(h) ==
    /\ h \in live
    /\ pc[h] = "redis_guard"
    /\ pc'[h] # "redis_guard"

\* C38: an append that returned an error left none of its events in the
\* stream; the events of an append that returned Ok are all there, one
\* after the other; and an append with Exact(v) on a stream that holds an
\* entry later than v is rejected with VersionConflict.
C38_RedisAppendAtomic ==
    [][\A h \in Handles :
          /\ /\ ReturnStep(h)
             /\ op[h] = "append"
             /\ ret'[h].tag # "Ok"
             => EntriesOf(tag[h]) = {}
          /\ /\ ReturnStep(h)
             /\ op[h] = "append"
             /\ ret'[h].tag = "Ok"
             => /\ Cardinality(EntriesOf(tag[h])) = Len(ret'[h].events)
                /\ \A i, j \in EntriesOf(tag[h]) :
                       \A k \in i..j : k \in EntriesOf(tag[h])
          /\ /\ RedisGuardStep(h)
             /\ version[h].t = "Exact"
             /\ \E i \in 1..Len(redis_stream) :
                    redis_stream[i].id.timestamp > version[h].v.timestamp
             => pc'[h] = "idle" /\ ret'[h].tag \in {"VersionConflict", "RepoErr"}]_vars

\* execute over the Redis repository: the initial load.
RedisExecuteCall(h, ss, cm, rt) ==
    /\ Idle(h)
    /\ ncalls < MaxCalls
    /\ ncalls' = ncalls + 1
    /\ op' = [op EXCEPT ![h] = "execute"]
    /\ tag' = [tag EXCEPT ![h] = NextTag(h)]
    /\ LET l == IF ss.t = "New" THEN Ok(<<>>, NoStream)
                ELSE redis_load(TRUE, TRUE, redis_stream, ss.id)
       IN  /\ stream_state' = [stream_state EXCEPT ![h] = ss]
           /\ ctx' = [ctx EXCEPT ![h] = 1]
           /\ cmd' = [cmd EXCEPT ![h] = cm]
           /\ retrys' = [retrys EXCEPT ![h] = rt]
           /\ decider_evts' = [decider_evts EXCEPT ![h] = l.events]
           /\ version' = [version EXCEPT ![h] = l.version]
           /\ pc' = [pc EXCEPT ![h] = "redis_attempt"]
           /\ ret' = [ret EXCEPT ![h] = NoResult]
           /\ UNCHANGED <<r, state, new_evts, stream, position>>
    /\ UNCHANGED <<cells, repo, live>>
    /\ UNCHANGED <<overflow_checks, snapshot>>
    /\ UNCHANGED <<esdb, backends>>

\* One iteration of execute's loop up to its call of append.
RedisAttempt(h) ==
    /\ h \in live
    /\ pc[h] = "redis_attempt"
    /\ cmd[h].op = "AddUser" /\ r[h] < retrys[h] => ctx[h] <= NumIds
    /\ IF ~(r[h] < retrys[h])
       THEN Return(h, OccMaxRetries)
       ELSE LET d == decide(ctx[h], AttemptState(h), cmd[h], tag[h])
            IN  IF ~d.ok
                THEN Return(h, DecideErr)
                ELSE IF stream_state[h].t = "New" /\ d.evts = <<>>
                THEN Return(h, Ok(<<>>, Any))
                ELSE    /\ ctx' = [ctx EXCEPT ![h] = d.ctx]
                        /\ state' = [state EXCEPT ![h] = AttemptState(h)]
                        /\ new_evts' = [new_evts EXCEPT ![h] = d.evts]
                        /\ stream' = [stream EXCEPT ![h] =
                                        IF stream_state[h].t = "New"
                                        THEN StreamIdFrom(d.evts[1])
                                        ELSE stream_state[h].id]
                        /\ pc' = [pc EXCEPT ![h] = "redis_guard"]
                        /\ UNCHANGED <<ret, stream_state, cmd, retrys, r,
                                       decider_evts, version, position>>
    /\ UNCHANGED <<cells, repo, live, op, tag, ncalls>>
    /\ UNCHANGED <<overflow_checks, snapshot>>
    /\ UNCHANGED <<esdb, backends>>

\* The conflict branch: load_from_version of the Redis repository.
RedisCatchUp(h) ==
    /\ h \in live
    /\ pc[h] = "redis_catchup"
    /\ LET l == redis_load_from_version(redis_stream, version[h], stream[h])
       IN  /\ version' = [version EXCEPT ![h] = l.version]
           /\ decider_evts' = [decider_evts EXCEPT
                                 ![h] = decider_evts[h] \o l.events]
           /\ r' = [r EXCEPT ![h] = r[h] + 1]
           /\ pc' = [pc EXCEPT ![h] = "redis_attempt"]
           /\ UNCHANGED <<ret, args, state, new_evts, stream, position>>
    /\ UNCHANGED <<cells, repo, live, op, tag, ncalls>>
    /\ UNCHANGED <<overflow_checks, snapshot>>
    /\ UNCHANGED <<esdb, backends>>

\* execute with New among appends for another entity, without faults of
\* the connection.
RedisOccNext ==
    \/ \E h \in Handles : Clone(h)
    \/ \E h \in Handles, ver \in {Any, NoStream, StreamExists} :
           RedisAppendCall(h, ver, OtherEntity, 1)
    \/ \E h \in Handles : RedisGuard(h, FALSE)
    \/ \E h \in Handles : RedisPublish(h, FALSE)
    \/ \E h \in Handles, rt \in FailRetrys :
           RedisExecuteCall(h, New, AddUser(1), rt)
    \/ \E h \in Handles : RedisAttempt(h)
    \/ \E h \in Handles : RedisCatchUp(h)

\* Every step of a call is taken in the end.
RedisOccFairness ==
    \A h \in Handles :
        /\ WF_vars(RedisGuard(h, FALSE))
        /\ WF_vars(RedisPublish(h, FALSE))
        /\ WF_vars(RedisAttempt(h))
        /\ WF_vars(RedisCatchUp(h))

RedisOccSpec == Init /\ [][RedisOccNext]_vars /\ RedisOccFairness

\* The stream holds an entry of an entity that execute draws.
HoldsDrawnEntity ==
    \E i \in 1..Len(redis_stream) : redis_stream[i].stream \in Ids

\* C39: an execute with New that starts while the stream holds events of
\* other entities only returns Ok in the end (unless another call has
\* created an entity of its own meanwhile).
C39_NewSucceedsOnSharedStream ==
    \A h \in Handles :
        (/\ h \in live
         /\ pc[h] = "redis_attempt"
         /\ stream_state[h] = New
         /\ r[h] = 1
         /\ ~HoldsDrawnEntity)
        ~> \/ pc[h] = "idle" /\ ret[h].tag = "Ok"
           \/ \E i \in 1..Len(redis_stream) :
                  /\ redis_stream[i].stream \in Ids
                  /\ redis_stream[i].event.tag # tag[h]

\* ---------------------------------------------------------------------
\* The Redis JSON snapshot repository (redis/versioned_stream_snapshot.rs).

\* A State with its stream id, and the states a caller saves.
Model(id, payload) == [id |-> id, payload |-> payload]
Models == {Model(id, payload) : id \in Ids, payload \in 1..2}

\* WithVersionedRedisDTO::to_dto
to_dto(st, ver) == [id |-> st.id, version |-> ver, data |-> st]

\* What can fail in a call besides the lookup of the key.
JsonFaults == {"none", "ConnectionError", "SaveError"}

\* RedisJSONSnapshotRepository::save; snapshot_expiry is None.
json_save(json, ver, st, fault) ==
    IF fault # "none" THEN RepoErr(fault) ELSE Ok(<<st>>, Exact(ver))

\* The server's snapshots after that save.
JsonAfterSave(json, ver, st, fault) ==
    IF fault # "none" THEN json
    ELSE [json EXCEPT ![st.id] = <<to_dto(st, ver)>>]

\* RedisJSONSnapshotRepository::reify; the stream 0 is None.
json_reify(json, s, connected) ==
    IF ~connected THEN RepoErr("ConnectionError")
    ELSE IF s = 0 THEN Panic
    ELSE IF json[s] = <<>> THEN RepoErr("ReadError")
    ELSE Ok(<<json[s][1].data>>, Exact(json[s][1].version))

\* A client calls save with a version and a state.
JsonSaveCall(h, ver, st) ==
    /\ Idle(h)
    /\ ncalls < MaxCalls
    /\ ncalls' = ncalls + 1
    /\ op' = [op EXCEPT ![h] = "save"]
    /\ pc' = [pc EXCEPT ![h] = "json_save"]
    /\ tag' = [tag EXCEPT ![h] = NextTag(h)]
    /\ version' = [version EXCEPT ![h] = Exact(ver)]
    /\ state' = [state EXCEPT ![h] = st]
    /\ ret' = [ret EXCEPT ![h] = NoResult]
    /\ UNCHANGED <<cells, repo, live, stream_state, cmd, retrys, ctx, r,
                   decider_evts, new_evts, stream, position>>
    /\ UNCHANGED <<overflow_checks, snapshot>>
    /\ UNCHANGED <<esdb, backends>>

\* The save reaches the server and returns.
JsonSave(h, fault) ==
    /\ h \in live
    /\ pc[h] = "json_save"
    /\ redis_json' = JsonAfterSave(redis_json, version[h].v, state[h], fault)
    /\ Return(h, json_save(redis_json, version[h].v, state[h], fault))
    /\ UNCHANGED <<cells, repo, live, op, tag, ncalls>>
    /\ UNCHANGED <<overflow_checks, snapshot>>
    /\ UNCHANGED <<esdb, slept, esdb_streams, redis_stream>>

\* A client calls reify: one command of the server.
JsonReify(h, s, connected) ==
    /\ Idle(h)
    /\ ncalls < MaxCalls
    /\ ncalls' = ncalls + 1
    /\ op' = [op EXCEPT ![h] = "reify"]
    /\ tag' = [tag EXCEPT ![h] = NextTag(h)]
    /\ Return(h, json_reify(redis_json, s, connected))
    /\ UNCHANGED <<cells, repo, live>>
    /\ UNCHANGED <<overflow_checks, snapshot>>
    /\ UNCHANGED <<esdb, backends>>

JsonNext ==
    \/ \E h \in Handles : Clone(h)
    \/ \E h \in Handles, ts \in 1..MaxRead, st \in Models :
           JsonSaveCall(h, RedisVersion(ts, 0), st)
    \/ \E h \in Handles, fault \in JsonFaults : JsonSave(h, fault)
    \/ \E h \in Handles, s \in {0} \cup Ids, connected \in BOOLEAN :
           JsonReify(h, s, connected)

JsonSpec == Init /\ [][JsonNext]_vars

\* A save of h answers in this step, for a key whose stored snapshot has
\* another version than the one the save was called with.
StaleSaveStep(h) ==
    /\ h \in live
    /\ pc[h] = "json_save"
    /\ pc'[h] = "idle"
    /\ redis_json[state[h].id] # <<>>
    /\ redis_json[state[h].id][1].version # version[h].v

\* C40: a save with a version that is not the version of the stored
\* snapshot returns VersionConflict (or the error of a failed connection)
\* and leaves the stored snapshot and its version as they were.
C40_SaveUnderOcc ==
    [][\A h \in Handles :
          StaleSaveStep(h)
          => /\ ret'[h].tag \in {"VersionConflict", "RepoErr"}
             /\ redis_json' = redis_json]_vars

====
